---- MODULE Spec2Model ----
(***************************************************************************)
(* A model of sys_traits' InMemorySys (src/src/impls/in_memory.rs): the    *)
(* in-memory directory tree, path resolution with symlinks, the mutable    *)
(* tree walk, the facade operations and the file handles.                  *)
(*                                                                         *)
(* A path is the sequence of its std::path components: "/" is RootDir,     *)
(* "." CurDir, ".." ParentDir, any other string a Normal component.        *)
(* A directory's children are a sequence of entries in the order of the    *)
(* Vec<DirectoryEntry> that holds them. A file's Arc<RwLock<FileInner>> is  *)
(* an id into the heap `files`; an Arc nobody holds any more is freed.     *)
(***************************************************************************)
EXTENDS Integers, Sequences, FiniteSets, TLC

VARIABLES
  system_root,   \* InMemorySysInner.system_root: the top-level entries
  cwd,           \* InMemorySysInner.cwd
  files,         \* the live FileInner values, by Arc identity
  handles,       \* the open InMemoryFile handles: [inner, pos]
  bsImpl,        \* which slice::binary_search_by the build links
  overflow_checks, \* whether the build panics on integer overflow
  res_path,      \* lookup_entry_detail: the path of the current round
  res_seen,      \* lookup_entry_detail: seen_entries
  res_state,     \* lookup_entry_detail: where the loop stands
  norm_path,     \* normalize_path: the argument
  norm_components, \* normalize_path: the components not yet taken
  norm_ret,      \* normalize_path: ret
  lock,          \* the RwLock of InMemorySys: its writer and its readers
  threads,       \* each thread's call in progress and its locals
  clock,         \* SystemTime::now()
  modified_time, \* FileInner.modified_time, by Arc identity
  read_dir_iter, \* the iterator base_fs_read_dir returned
  random_seed,   \* InMemorySysInner.random_seed
  rand_len,      \* sys_random: buf.len()
  rand_buf,      \* sys_random: the bytes of buf written so far
  rand_state,    \* random_with_seed: state
  rand_prev      \* what the call of sys_random before this one returned

normVars == <<norm_path, norm_components, norm_ret>>

threadVars == <<lock, threads, clock, modified_time>>

randVars == <<random_seed, rand_len, rand_buf, rand_state, rand_prev>>

vars == <<system_root, cwd, files, handles, bsImpl, overflow_checks,
          res_path, res_seen, res_state, normVars, threadVars,
          read_dir_iter, randVars>>

---------------------------------------------------------------------------
\* Bounds of the model.

\* Longest input path, in components after the root.
MaxDepth == 2
\* Most entries the tree holds below the root directory.
MaxEntries == 3
\* Longest byte string written in one call.
MaxLen == 1
\* Most FileInner values alive at once.
MaxFiles == 2
\* Longest byte string of a write that is read back.
MaxWrite == 3
\* Bits of usize, u64 and i64 (a 64-bit target, scaled down).
WordBits == 4
\* Most handles open at once.
MaxHandles == 2
\* Longest content of a file that handles write to.
MaxData == 3

\* Threads that call into one InMemorySys.
MaxThreads == 2
\* Latest reading of the clock.
MaxClock == 1
\* Longest path normalize_path is given, in components after the root.
MaxComps == 3
\* Longest buffer sys_random fills.
MaxBuf == 3

\* The names of entries, and the byte values written.
Names == {"a", "b"}
Bytes == {1, 2}

Threads == 1..MaxThreads

\* No call of normalize_path is followed.
NormIdle ==
  /\ norm_path = <<>>
  /\ norm_components = <<>>
  /\ norm_ret = <<>>

\* The arguments of a call: the path p, and q, the destination of a rename,
\* the target of a symlink or the bytes of a write.
Call(op, p, q) == [op |-> op, p |-> p, q |-> q]

\* base_fs_read_dir has returned no iterator.
NoIter ==
  read_dir_iter = [open |-> FALSE, path |-> <<>>, entries |-> <<>>, next |-> 1]

\* No seed is set and sys_random is not called.
RandIdle ==
  /\ random_seed = [some |-> FALSE, seed |-> <<>>]
  /\ rand_len = 0
  /\ rand_buf = <<>>
  /\ rand_state = <<>>
  /\ rand_prev = [some |-> FALSE, bytes |-> <<>>]

\* A thread outside every call. Inside one, pc is the statement it stands
\* at; time, from_idx, file_entry and file are the locals of that name.
\* guard is the guard of the RwLock<FileInner> the thread holds. old is the
\* content that the open of the thread's base_fs_write has cleared; the
\* program keeps no copy of it.
IdleThread ==
  [pc |-> "idle", call |-> Call("none", <<>>, <<>>), time |-> 0,
   from_idx |-> 0, file_entry |-> [kind |-> "None"],
   file |-> [inner |-> 0, pos |-> 0],
   guard |-> [inner |-> 0, mode |-> "none"],
   old |-> [some |-> FALSE, data |-> <<>>]]

\* One caller: no thread is inside a call, nobody holds the lock, and the
\* clock stands still.
ThreadsIdle ==
  /\ lock = [writer |-> 0, readers |-> {}]
  /\ threads = [t \in Threads |-> IdleThread]
  /\ clock = 0
  /\ modified_time = [i \in 1..MaxFiles |-> 0]

---------------------------------------------------------------------------
\* The(S) is the element of a singleton S. The({e : x \in {v}}) is e with x
\* bound to v: v is computed once, where the source has `let x = v;`.
The(S) == CHOOSE x \in S : TRUE

---------------------------------------------------------------------------
\* Names compare as Rust strings do: "" < "." < ".." < "a" < "b".

NameOrder == <<"", ".", "..", "a", "b">>

Ord(n) == CHOOSE i \in 1..Len(NameOrder) : NameOrder[i] = n

Cmp(x, y) ==
  IF Ord(x) < Ord(y) THEN "Less"
  ELSE IF Ord(x) > Ord(y) THEN "Greater"
  ELSE "Equal"

\* Component::as_os_str as the walks use it: RootDir is the entry named "".
CompName(comp) == IF comp = "/" THEN "" ELSE comp

---------------------------------------------------------------------------
\* std::path, on component sequences.

is_absolute(p) == p # <<>> /\ p[1] = "/"

\* Path::join: an absolute right side replaces the left; components()
\* drops a "." that is not the first component.
join(base, p) ==
  IF is_absolute(p) THEN p
  ELSE IF base = <<>> THEN p
  ELSE base \o SelectSeq(p, LAMBDA c : c # ".")

\* A pop that keeps the ".." it cannot fold.
PathPop_keeps_parent_dir(ret) ==
  IF ret = <<>> \/ ret[Len(ret)] = "/" THEN Append(ret, "..")
  ELSE SubSeq(ret, 1, Len(ret) - 1)

\* PathBuf::pop: no-op on the empty path and on the root.
PathPop(ret) ==
  IF ret = <<>> \/ ret[Len(ret)] = "/" THEN ret
  ELSE SubSeq(ret, 1, Len(ret) - 1)

RECURSIVE NormalizeFrom(_, _, _)
NormalizeFrom(comps, i, ret) ==
  IF i > Len(comps) THEN ret
  ELSE LET c == comps[i] IN
       NormalizeFrom(comps, i + 1,
         CASE c = "/"  -> <<"/">>
           [] c = "."  -> ret
           [] c = ".." -> PathPop(ret)
           [] OTHER    -> Append(ret, c))

normalize_path(path) == NormalizeFrom(path, 1, <<>>)

to_absolute_path(dir, p) ==
  IF is_absolute(p) THEN normalize_path(p) ELSE normalize_path(join(dir, p))

\* Path::parent is Some and non-empty: the guard of open, remove_file, rename.
HasParent(p) == Len(p) > 1 /\ p[Len(p)] # "/"
Parent(p) == SubSeq(p, 1, Len(p) - 1)

\* Path::file_name is Some only when the last component is Normal.
HasFileName(p) == p # <<>> /\ p[Len(p)] \notin {"/", ".", ".."}
FileName(p) == p[Len(p)]

---------------------------------------------------------------------------
\* DirectoryEntry.

DirectoryE(name, entries) ==
  [kind |-> "Directory", name |-> name, entries |-> entries, inner |-> 0, target |-> <<>>]
FileE(name, inner) ==
  [kind |-> "File", name |-> name, entries |-> <<>>, inner |-> inner, target |-> <<>>]
SymlinkE(name, target) ==
  [kind |-> "Symlink", name |-> name, entries |-> <<>>, inner |-> 0, target |-> target]

\* Vec::insert, Vec::remove and index assignment, positions from 1.
InsertAt(s, pos, e) == SubSeq(s, 1, pos - 1) \o <<e>> \o SubSeq(s, pos, Len(s))
RemoveAt(s, pos) == SubSeq(s, 1, pos - 1) \o SubSeq(s, pos + 1, Len(s))
ReplaceAt(s, pos, e) == [s EXCEPT ![pos] = e]

---------------------------------------------------------------------------
\* slice::binary_search_by(|e| e.name().cmp(name)). Its result on a slice that
\* is not sorted is unspecified: both implementations std has shipped are
\* modelled, and bsImpl says which one the build has. `found` with the
\* position of the match, or the insertion position (positions from 1).

RECURSIVE BSClassic(_, _, _, _)
BSClassic(es, name, left, right) ==
  IF left >= right THEN [found |-> FALSE, pos |-> left + 1]
  ELSE LET mid == left + ((right - left) \div 2)
           c == Cmp(es[mid + 1].name, name)
       IN IF c = "Equal" THEN [found |-> TRUE, pos |-> mid + 1]
          ELSE IF c = "Less" THEN BSClassic(es, name, mid + 1, right)
          ELSE BSClassic(es, name, left, mid)

RECURSIVE BSBranchless(_, _, _, _)
BSBranchless(es, name, base, size) ==
  IF size = 0 THEN [found |-> FALSE, pos |-> 1]
  ELSE IF size > 1
  THEN LET half == size \div 2
           mid == base + half
           c == Cmp(es[mid + 1].name, name)
       IN BSBranchless(es, name, IF c = "Greater" THEN base ELSE mid, size - half)
  ELSE LET c == Cmp(es[base + 1].name, name)
       IN IF c = "Equal" THEN [found |-> TRUE, pos |-> base + 1]
          ELSE [found |-> FALSE, pos |-> base + 1 + (IF c = "Less" THEN 1 ELSE 0)]

binary_search_by(impl, es, name) ==
  IF impl = "classic" THEN BSClassic(es, name, 0, Len(es))
  ELSE BSBranchless(es, name, 0, Len(es))

---------------------------------------------------------------------------
\* The error each failing return carries, by its message, and its ErrorKind.

Kind(err) ==
  CASE err \in {"EmptyPath", "PathNotFound", "FileNotFound", "SourceNotFound"} -> "NotFound"
    [] err \in {"FileExists", "DirectoryExists"} -> "AlreadyExists"
    [] err = "SeekBeforeStart" -> "InvalidInput"
    [] err = "Ok" -> "Ok"
    [] err = "Panic" -> "Panic"
    [] OTHER -> "Other"

NoEntry == [kind |-> "None", name |-> "", entries |-> <<>>, inner |-> 0, target |-> <<>>]

Lookup(tag, path, entry, target_path, err) ==
  [tag |-> tag, path |-> path, entry |-> entry, target_path |-> target_path, err |-> err]

---------------------------------------------------------------------------
\* InMemorySysInner::lookup_entry_detail_no_follow: the walk from the root
\* that stops at the first symlink it meets.

\* A walk that takes a File in the middle of the path for a missing name.
RECURSIVE NoFollowWalk_file_is_missing(_, _, _)
NoFollowWalk_file_is_missing(entries, comps, i) ==
  The({
    IF ~bs.found THEN Lookup("NotFound", comps, NoEntry, <<>>, "Ok")
    ELSE LET e == entries[bs.pos] IN
         CASE e.kind = "Directory" ->
                IF i = Len(comps) THEN Lookup("Found", comps, e, <<>>, "Ok")
                ELSE NoFollowWalk_file_is_missing(e.entries, comps, i + 1)
           [] e.kind = "File" ->
                IF i = Len(comps) THEN Lookup("Found", comps, e, <<>>, "Ok")
                ELSE Lookup("NotFound", comps, NoEntry, <<>>, "Ok")
           [] OTHER ->
                LET current_path == SubSeq(comps, 1, i) IN
                Lookup("Symlink", current_path, e,
                       normalize_path(join(current_path, e.target)), "Ok")
    : bs \in {binary_search_by(bsImpl, entries, CompName(comps[i]))} })

RECURSIVE NoFollowWalk(_, _, _)
NoFollowWalk(entries, comps, i) ==
  The({
    IF ~bs.found THEN Lookup("NotFound", comps, NoEntry, <<>>, "Ok")
    ELSE LET e == entries[bs.pos] IN
         CASE e.kind = "Directory" ->
                IF i = Len(comps) THEN Lookup("Found", comps, e, <<>>, "Ok")
                ELSE NoFollowWalk(e.entries, comps, i + 1)
           [] e.kind = "File" ->
                IF i = Len(comps) THEN Lookup("Found", comps, e, <<>>, "Ok")
                ELSE Lookup("Err", <<>>, NoEntry, <<>>, "LeadsIntoFile")
           [] OTHER ->
                LET current_path == SubSeq(comps, 1, i) IN
                Lookup("Symlink", current_path, e,
                       normalize_path(join(current_path, e.target)), "Ok")
    : bs \in {binary_search_by(bsImpl, entries, CompName(comps[i]))} })

lookup_entry_detail_no_follow(root, path) ==
  IF path = <<>> THEN Lookup("Err", <<>>, NoEntry, <<>>, "EmptyPath")
  ELSE NoFollowWalk(root, path, 1)

\* A round that takes a repeated target for a missing path instead of a loop.
FollowRound_repeat_not_found(root, path, seen) ==
  The({
    IF r.tag # "Symlink" THEN [r EXCEPT !.target_path = <<>>] @@ [seen |-> seen]
    ELSE LET seen1 == IF seen = {} THEN {r.path} ELSE seen IN
         IF r.target_path \in seen1
         THEN Lookup("NotFound", r.target_path, NoEntry, <<>>, "Ok") @@ [seen |-> seen1]
         ELSE Lookup("Continue", r.target_path, NoEntry, <<>>, "Ok")
                @@ [seen |-> seen1 \cup {r.target_path}]
    : r \in {lookup_entry_detail_no_follow(root, path)} })

\* One round of the loop of InMemorySysInner::lookup_entry_detail: the result
\* it returns, or "Continue" with the next path and the grown seen_entries.
FollowRound(root, path, seen) ==
  The({
    IF r.tag # "Symlink" THEN [r EXCEPT !.target_path = <<>>] @@ [seen |-> seen]
    ELSE LET seen1 == IF seen = {} THEN {r.path} ELSE seen IN
         IF r.target_path \in seen1
         THEN Lookup("Err", <<>>, NoEntry, <<>>, "SymlinkLoop") @@ [seen |-> seen1]
         ELSE Lookup("Continue", r.target_path, NoEntry, <<>>, "Ok")
                @@ [seen |-> seen1 \cup {r.target_path}]
    : r \in {lookup_entry_detail_no_follow(root, path)} })

RECURSIVE FollowLoop(_, _, _)
FollowLoop(root, path, seen) ==
  The({ IF r.tag = "Continue" THEN FollowLoop(root, r.path, r.seen) ELSE r
        : r \in {FollowRound(root, path, seen)} })

lookup_entry_detail(root, path) == FollowLoop(root, path, {})

\* InMemorySysInner::lookup_entry: NotFound is an error here.
lookup_entry(root, path) ==
  The({ IF r.tag = "NotFound" THEN [r EXCEPT !.tag = "Err", !.err = "PathNotFound"] ELSE r
        : r \in {lookup_entry_detail(root, path)} })

---------------------------------------------------------------------------
\* InMemorySysInner::find_directory_mut. The &mut Directory it returns is the
\* sequence of positions that leads to it (ipath); the tree is returned too,
\* since directories the walk has inserted stay when it fails later.

\* The step of the walk below a Directory found or inserted at pos.
MutDescend(es1, pos, sub) ==
  [err |-> sub.err,
   entries |-> ReplaceAt(es1, pos, [es1[pos] EXCEPT !.entries = sub.entries]),
   ipath |-> <<pos>> \o sub.ipath]

\* A walk that takes whatever entry the last component names for the
\* directory, without looking at its kind.
RECURSIVE MutWalk_any_kind(_, _, _, _)
MutWalk_any_kind(entries, comps, i, create_dirs) ==
  The({
    IF ~bs.found /\ ~create_dirs
    THEN [err |-> "PathNotFound", entries |-> entries, ipath |-> <<>>]
    ELSE LET es1 == IF bs.found THEN entries
                    ELSE InsertAt(entries, bs.pos, DirectoryE(CompName(comps[i]), <<>>))
             e == es1[bs.pos]
         IN
         IF i = Len(comps)
         THEN [err |-> "Ok", entries |-> es1, ipath |-> <<bs.pos>>]
         ELSE IF e.kind = "Directory"
         THEN MutDescend(es1, bs.pos, MutWalk_any_kind(e.entries, comps, i + 1, create_dirs))
         ELSE [err |-> "LeadsIntoFile", entries |-> es1, ipath |-> <<>>]
    : bs \in {binary_search_by(bsImpl, entries, CompName(comps[i]))} })

RECURSIVE MutWalk(_, _, _, _)
MutWalk(entries, comps, i, create_dirs) ==
  The({
    IF ~bs.found /\ ~create_dirs
    THEN [err |-> "PathNotFound", entries |-> entries, ipath |-> <<>>]
    ELSE LET es1 == IF bs.found THEN entries
                    ELSE InsertAt(entries, bs.pos, DirectoryE(CompName(comps[i]), <<>>))
             e == es1[bs.pos]
         IN
         IF e.kind = "Directory"
         THEN IF i = Len(comps)
              THEN [err |-> "Ok", entries |-> es1, ipath |-> <<bs.pos>>]
              ELSE MutDescend(es1, bs.pos, MutWalk(e.entries, comps, i + 1, create_dirs))
         ELSE [err |-> "LeadsIntoFile", entries |-> es1, ipath |-> <<>>]
    : bs \in {binary_search_by(bsImpl, entries, CompName(comps[i]))} })

find_directory_mut(root, path, create_dirs) ==
  The({
    IF r.tag = "Err" THEN [err |-> r.err, root |-> root, ipath |-> <<>>]
    ELSE IF r.path = <<>> THEN [err |-> "EmptyPath", root |-> root, ipath |-> <<>>]
    ELSE The({ [err |-> w.err, root |-> w.entries, ipath |-> w.ipath]
               : w \in {MutWalk(root, r.path, 1, create_dirs)} })
    : r \in {lookup_entry_detail(root, path)} })

\* The entries of the directory a sequence of positions leads to, and the
\* tree with those entries replaced.
RECURSIVE EntriesAt(_, _)
EntriesAt(root, ipath) ==
  IF ipath = <<>> THEN root ELSE EntriesAt(root[ipath[1]].entries, Tail(ipath))

RECURSIVE SetEntriesAt(_, _, _)
SetEntriesAt(root, ipath, new) ==
  IF ipath = <<>> THEN new
  ELSE ReplaceAt(root, ipath[1],
         [root[ipath[1]] EXCEPT !.entries = SetEntriesAt(@, Tail(ipath), new)])

---------------------------------------------------------------------------
\* The facade's operations, as functions of the system s = [root, files, cwd]
\* that return the error (or "Ok") and the system they leave.

Result(err, s) == [err |-> err, s |-> s]

\* BaseFsCreateDirAll::base_fs_create_dir_all
base_fs_create_dir_all(s, path) ==
  The({ Result(d.err, [s EXCEPT !.root = d.root])
        : d \in {find_directory_mut(s.root, to_absolute_path(s.cwd, path), TRUE)} })

---------------------------------------------------------------------------
\* The heap of FileInner values: files[id] is live (held by a File entry or
\* a handle) or free. A new Arc takes the first free id.

Free == [live |-> FALSE, data |-> <<>>]
Inner(data) == [live |-> TRUE, data |-> data]

NewId(fls) ==
  IF \E i \in 1..Len(fls) : ~fls[i].live
  THEN CHOOSE i \in 1..Len(fls) : ~fls[i].live /\ \A j \in 1..(i - 1) : fls[j].live
  ELSE Len(fls) + 1

Alloc(fls, data) ==
  LET id == NewId(fls) IN
  IF id > Len(fls) THEN Append(fls, Inner(data)) ELSE [fls EXCEPT ![id] = Inner(data)]

NoHandle == [inner |-> 0, pos |-> 0]

---------------------------------------------------------------------------
\* OpenOptions, the fields base_fs_open reads.

Options(create, truncate, append, create_new) ==
  [create |-> create, truncate |-> truncate, append |-> append, create_new |-> create_new]

OpenFail(s, err) == [err |-> err, s |-> s, handle |-> NoHandle]

\* An open that finds a File and leaves its content as it is.
OpenExisting_keeps_content(s, f, options) ==
  IF f.kind # "File" THEN OpenFail(s, "NotAFile")
  ELSE IF options.create_new THEN OpenFail(s, "FileExists")
  ELSE [err |-> "Ok", s |-> s,
        handle |-> [inner |-> f.inner,
                    pos |-> IF options.append THEN Len(s.files[f.inner].data) ELSE 0]]

\* An open that finds a File and always starts the cursor at 0.
OpenExisting_from_start(s, f, options) ==
  IF f.kind # "File" THEN OpenFail(s, "NotAFile")
  ELSE IF options.create_new THEN OpenFail(s, "FileExists")
  ELSE LET fls == IF options.truncate
                  THEN [s.files EXCEPT ![f.inner].data = <<>>]
                  ELSE s.files
       IN [err |-> "Ok", s |-> [s EXCEPT !.files = fls],
           handle |-> [inner |-> f.inner, pos |-> 0]]

\* An open that finds a File and takes it even when create_new is set.
OpenExisting_despite_create_new(s, f, options) ==
  IF f.kind # "File" THEN OpenFail(s, "NotAFile")
  ELSE LET fls == IF options.truncate
                  THEN [s.files EXCEPT ![f.inner].data = <<>>]
                  ELSE s.files
       IN [err |-> "Ok", s |-> [s EXCEPT !.files = fls],
           handle |-> [inner |-> f.inner,
                       pos |-> IF options.append THEN Len(fls[f.inner].data) ELSE 0]]

\* base_fs_open, the arm `Ok(pos) => match &mut parent.entries[pos]`: the
\* name exists and f is the entry found.
OpenExisting(s, f, options) ==
  IF f.kind # "File" THEN OpenFail(s, "NotAFile")
  ELSE IF options.create_new THEN OpenFail(s, "FileExists")
  ELSE LET fls == IF options.truncate
                  THEN [s.files EXCEPT ![f.inner].data = <<>>]
                  ELSE s.files
       IN [err |-> "Ok",
           s |-> [s EXCEPT !.files = fls],
           handle |-> [inner |-> f.inner,
                       pos |-> IF options.append THEN Len(fls[f.inner].data) ELSE 0]]

\* BaseFsOpen::base_fs_open
base_fs_open(s, path, options) ==
  The({
    IF ~HasParent(abs) THEN OpenFail(s, "CannotOpenRoot")
    ELSE The({
      IF d.err # "Ok" THEN OpenFail(s, d.err)
      ELSE IF ~HasFileName(abs) THEN OpenFail(s, "NoFileName")
      ELSE LET es == EntriesAt(d.root, d.ipath) IN
      The({
        IF bs.found
        THEN OpenExisting(s, es[bs.pos], options)
        ELSE IF ~options.create THEN OpenFail(s, "FileNotFound")
        ELSE LET id == NewId(s.files)
                 new_file == FileE(FileName(abs), id)
             IN [err |-> "Ok",
                 s |-> [s EXCEPT !.files = Alloc(s.files, <<>>),
                                 !.root = SetEntriesAt(d.root, d.ipath,
                                                       InsertAt(es, bs.pos, new_file))],
                 handle |-> [inner |-> id, pos |-> 0]]
        : bs \in {binary_search_by(bsImpl, es, FileName(abs))} })
      : d \in {find_directory_mut(s.root, Parent(abs), FALSE)} })
    : abs \in {to_absolute_path(s.cwd, path)} })

\* BaseFsRead::base_fs_read: OpenOptions::read(), then the whole content.
base_fs_read(s, path) ==
  The({ IF o.err # "Ok" THEN [err |-> o.err, data |-> <<>>]
        ELSE [err |-> "Ok", data |-> o.s.files[o.handle.inner].data]
        : o \in {base_fs_open(s, path, Options(FALSE, FALSE, FALSE, FALSE))} })

\* A base_fs_write that opens (and so creates) the file but drops the bytes.
base_fs_write_dropped(s, path, data) ==
  The({ Result(o.err, o.s)
        : o \in {base_fs_open(s, path, Options(TRUE, TRUE, FALSE, FALSE))} })

\* BaseFsWrite::base_fs_write: open with write, create and truncate, then
\* clear and extend the content.
base_fs_write(s, path, data) ==
  The({ IF o.err # "Ok" THEN Result(o.err, o.s)
        ELSE Result("Ok", [o.s EXCEPT !.files[o.handle.inner].data = data])
        : o \in {base_fs_open(s, path, Options(TRUE, TRUE, FALSE, FALSE))} })

\* BaseFsRemoveFile::base_fs_remove_file
base_fs_remove_file(s, path) ==
  The({
    IF ~HasParent(abs) THEN Result("CannotRemoveRoot", s)
    ELSE The({
      IF d.err # "Ok" THEN Result(d.err, s)
      ELSE IF ~HasFileName(abs) THEN Result("NoFileName", s)
      ELSE LET es == EntriesAt(d.root, d.ipath) IN
      The({
        IF ~bs.found THEN Result("FileNotFound", s)
        ELSE IF es[bs.pos].kind # "File" THEN Result("NotAFile", s)
        ELSE Result("Ok", [s EXCEPT !.root =
                             SetEntriesAt(d.root, d.ipath, RemoveAt(es, bs.pos))])
        : bs \in {binary_search_by(bsImpl, es, FileName(abs))} })
      : d \in {find_directory_mut(s.root, Parent(abs), FALSE)} })
    : abs \in {to_absolute_path(s.cwd, path)} })

\* Vec::insert panics when the index is past the end.
CanInsert(es, pos) == pos <= Len(es) + 1

\* The restore step of base_fs_rename after to_parent was taken: find
\* from_parent again and insert the detached entry at from_idx.
RenameRestore(s, root, from_parent_path, from_idx, file_entry, err) ==
  The({
    IF fp.err # "Ok" THEN Result(fp.err, [s EXCEPT !.root = fp.root])
    ELSE LET es == EntriesAt(fp.root, fp.ipath) IN
         IF ~CanInsert(es, from_idx) THEN Result("Panic", [s EXCEPT !.root = fp.root])
         ELSE Result(err, [s EXCEPT !.root =
                             SetEntriesAt(fp.root, fp.ipath,
                                          InsertAt(es, from_idx, file_entry))])
    : fp \in {find_directory_mut(root, from_parent_path, FALSE)} })

\* base_fs_rename from `let to_parent = ...` on: tp is what
\* find_directory_mut(to_parent_path, true) returned on the tree without the
\* detached file_entry.
RenameInto(s, from, to, from_idx, file_entry, tp) ==
  IF tp.err # "Ok" THEN Result(tp.err, [s EXCEPT !.root = tp.root])
  ELSE IF file_entry.kind # "File"
  THEN RenameRestore(s, tp.root, Parent(from), from_idx, file_entry, "RenameDirOrSymlink")
  ELSE LET tes == EntriesAt(tp.root, tp.ipath)
           f == FileE(FileName(to), file_entry.inner)
       IN
  The({
    IF tbs.found /\ tes[tbs.pos].kind = "Directory"
    THEN RenameRestore(s, tp.root, Parent(from), from_idx, file_entry, "RenameToDirectory")
    ELSE IF tbs.found
    THEN Result("Ok", [s EXCEPT !.root =
                         SetEntriesAt(tp.root, tp.ipath, ReplaceAt(tes, tbs.pos, f))])
    ELSE Result("Ok", [s EXCEPT !.root =
                         SetEntriesAt(tp.root, tp.ipath, InsertAt(tes, tbs.pos, f))])
    : tbs \in {binary_search_by(bsImpl, tes, FileName(to))} })

\* BaseFsRename::base_fs_rename
base_fs_rename(s, from_path, to_path) ==
  The({
    IF ~HasParent(from) THEN Result("CannotRenameRoot", s)
    ELSE IF ~HasFileName(from) THEN Result("NoSourceName", s)
    ELSE The({
      IF fp.err # "Ok" THEN Result(fp.err, s)
      ELSE LET fes == EntriesAt(fp.root, fp.ipath) IN
      The({
        IF ~fbs.found THEN Result("SourceNotFound", s)
        \* both early restores insert into the from_parent still borrowed
        ELSE IF ~HasParent(to) THEN Result("CannotRenameToRoot", s)
        ELSE IF ~HasFileName(to) THEN Result("NoDestName", s)
        ELSE RenameInto(s, from, to, fbs.pos, fes[fbs.pos],
               find_directory_mut(
                 SetEntriesAt(fp.root, fp.ipath, RemoveAt(fes, fbs.pos)),
                 Parent(to), TRUE))
        : fbs \in {binary_search_by(bsImpl, fes, FileName(from))} })
      : fp \in {find_directory_mut(s.root, Parent(from), FALSE)} })
    : from \in {to_absolute_path(s.cwd, from_path)},
      to \in {to_absolute_path(s.cwd, to_path)} })

\* BaseFsSymlinkFile::base_fs_symlink_file (base_fs_symlink_dir forwards to it)
base_fs_symlink_file(s, original, link_path) ==
  The({
    \* link.parent().unwrap()
    IF link = <<>> \/ link[Len(link)] = "/" THEN Result("Panic", s)
    ELSE The({
      IF d.err # "Ok" THEN Result(d.err, s)
      \* link.file_name().unwrap()
      ELSE IF ~HasFileName(link) THEN Result("Panic", s)
      ELSE LET es == EntriesAt(d.root, d.ipath)
               new == SymlinkE(FileName(link), original)
           IN
      The({
        IF bs.found /\ es[bs.pos].kind = "Directory" THEN Result("DirectoryExists", s)
        ELSE IF bs.found
        THEN Result("Ok", [s EXCEPT !.root =
                             SetEntriesAt(d.root, d.ipath, ReplaceAt(es, bs.pos, new))])
        ELSE Result("Ok", [s EXCEPT !.root =
                             SetEntriesAt(d.root, d.ipath, InsertAt(es, bs.pos, new))])
        : bs \in {binary_search_by(bsImpl, es, FileName(link))} })
      : d \in {find_directory_mut(s.root, Parent(link), FALSE)} })
    : link \in {to_absolute_path(s.cwd, link_path)} })

\* BaseFsHardLink::base_fs_hard_link: the source's bytes, written to dst.
base_fs_hard_link(s, src_path, dst_path) ==
  The({
    IF r.tag = "Err" THEN Result(r.err, s)
    ELSE IF r.entry.kind # "File" THEN Result("HardLinkDirOrSymlink", s)
    ELSE base_fs_write(s, to_absolute_path(s.cwd, dst_path), s.files[r.entry.inner].data)
    : r \in {lookup_entry(s.root, to_absolute_path(s.cwd, src_path))} })

\* BaseFsReadDir::base_fs_read_dir: one InMemoryDirEntry per child, its path
\* the path given joined with the child's name.
\* A read_dir whose entries carry the absolute path of the child.
base_fs_read_dir_absolute(s, path) ==
  The({ IF r.tag = "Err" THEN [err |-> r.err, entries |-> <<>>]
        ELSE IF r.entry.kind # "Directory" THEN [err |-> "NotADirectory", entries |-> <<>>]
        ELSE [err |-> "Ok",
              entries |-> [i \in 1..Len(r.entry.entries) |->
                             [name |-> r.entry.entries[i].name,
                              path |-> join(to_absolute_path(s.cwd, path),
                                            <<r.entry.entries[i].name>>),
                              file_type |-> r.entry.entries[i].kind]]]
        : r \in {lookup_entry(s.root, to_absolute_path(s.cwd, path))} })

base_fs_read_dir(s, path) ==
  The({ IF r.tag = "Err" THEN [err |-> r.err, entries |-> <<>>]
        ELSE IF r.entry.kind # "Directory" THEN [err |-> "NotADirectory", entries |-> <<>>]
        ELSE [err |-> "Ok",
              entries |-> [i \in 1..Len(r.entry.entries) |->
                             [name |-> r.entry.entries[i].name,
                              path |-> join(path, <<r.entry.entries[i].name>>),
                              file_type |-> r.entry.entries[i].kind]]]
        : r \in {lookup_entry(s.root, to_absolute_path(s.cwd, path))} })

\* BaseFsCanonicalize::base_fs_canonicalize
base_fs_canonicalize(s, path) ==
  The({ IF r.tag = "Err" THEN [err |-> r.err, path |-> <<>>]
        ELSE [err |-> "Ok", path |-> r.path]
        : r \in {lookup_entry(s.root, to_absolute_path(s.cwd, path))} })

\* BaseEnvSetCurrentDir::base_env_set_current_dir
base_env_set_current_dir(s, path) ==
  The({ IF c.err # "Ok" THEN Result(c.err, s) ELSE Result("Ok", [s EXCEPT !.cwd = c.path])
        : c \in {base_fs_canonicalize(s, path)} })

\* BaseFsMetadata::base_fs_metadata: the path is looked up as given.
base_fs_metadata(s, path) ==
  The({ IF r.tag = "Err" THEN [err |-> r.err, file_type |-> "None"]
        ELSE [err |-> "Ok", file_type |-> r.entry.kind]
        : r \in {lookup_entry(s.root, path)} })

\* BaseFsMetadata::base_fs_symlink_metadata
base_fs_symlink_metadata(s, path) ==
  The({ CASE r.tag = "Err" -> [err |-> r.err, file_type |-> "None"]
          [] r.tag = "NotFound" -> [err |-> "PathNotFound", file_type |-> "None"]
          [] r.tag = "Symlink" -> [err |-> "Ok", file_type |-> "Symlink"]
          [] OTHER -> [err |-> "Ok", file_type |-> r.entry.kind]
        : r \in {lookup_entry_detail_no_follow(s.root, path)} })

\* BaseFsMetadata::base_fs_exists
base_fs_exists(s, path) ==
  The({ IF m.err = "Ok" THEN [err |-> "Ok", value |-> TRUE]
        ELSE IF Kind(m.err) = "NotFound" THEN [err |-> "Ok", value |-> FALSE]
        ELSE [err |-> m.err, value |-> FALSE]
        : m \in {base_fs_symlink_metadata(s, path)} })

\* FsMetadata::fs_is_file and fs_is_dir
fs_is_file(s, path) ==
  The({ IF m.err # "Ok" THEN [err |-> m.err, value |-> FALSE]
        ELSE [err |-> "Ok", value |-> m.file_type = "File"]
        : m \in {base_fs_metadata(s, path)} })

fs_is_dir(s, path) ==
  The({ IF m.err # "Ok" THEN [err |-> m.err, value |-> FALSE]
        ELSE [err |-> "Ok", value |-> m.file_type = "Directory"]
        : m \in {base_fs_metadata(s, path)} })

\* FsMetadata::fs_is_symlink
fs_is_symlink(s, path) ==
  The({ IF m.err # "Ok" THEN [err |-> m.err, value |-> FALSE]
        ELSE [err |-> "Ok", value |-> m.file_type = "Symlink"]
        : m \in {base_fs_symlink_metadata(s, path)} })

\* Result::unwrap_or(false) of the *_no_err forms
unwrap_or_false(r) == IF r.err = "Ok" THEN r.value ELSE FALSE

\* BaseFsMetadata::base_fs_exists_no_err
base_fs_exists_no_err(s, path) == unwrap_or_false(base_fs_exists(s, path))

\* FsMetadata::fs_is_file_no_err, fs_is_dir_no_err, fs_is_symlink_no_err
fs_is_file_no_err(s, path) == unwrap_or_false(fs_is_file(s, path))

fs_is_dir_no_err(s, path) == unwrap_or_false(fs_is_dir(s, path))

fs_is_symlink_no_err(s, path) == unwrap_or_false(fs_is_symlink(s, path))

---------------------------------------------------------------------------
\* InMemoryFile: a handle h = [inner, pos] on the heap fls.

\* The integer types of a 64-bit target, WordBits wide: usize and u64 hold
\* 0..UMax, i64 holds IMin..IMax, and a Vec<u8> holds at most IMax bytes.
UMax == 2^WordBits - 1
IMax == 2^(WordBits - 1) - 1
IMin == 0 - 2^(WordBits - 1)

\* `x as usize` of an i64, and the result of a wrapping operation.
AsUsize(x) == x % 2^WordBits

\* std::io::Write::write: returns the heap and the handle it leaves.
\* Vec::resize past isize::MAX panics with "capacity overflow" before it
\* changes the content; the extend of splice panics the same way after the
\* content was cut at the cursor.
file_write(fls, h, buf) ==
  LET data == fls[h.inner].data
      filled == IF h.pos > Len(data)
                THEN data \o [i \in 1..(h.pos - Len(data)) |-> 0]
                ELSE data
      spliced == SubSeq(filled, 1, h.pos) \o buf
  IN IF h.pos > IMax
     THEN [err |-> "Panic", files |-> fls, handle |-> h, n |-> 0]
     ELSE IF h.pos + Len(buf) > IMax
     THEN [err |-> "Panic",
           files |-> [fls EXCEPT ![h.inner].data = SubSeq(filled, 1, h.pos)],
           handle |-> h, n |-> 0]
     ELSE [err |-> "Ok",
           files |-> [fls EXCEPT ![h.inner].data = spliced],
           handle |-> [h EXCEPT !.pos = h.pos + Len(buf)],
           n |-> Len(buf)]

\* std::io::Read::read into a buffer of len bytes.
file_read_keeps_cursor(fls, h, len) ==
  LET data == fls[h.inner].data IN
  IF h.pos > Len(data) THEN [handle |-> h, bytes |-> <<>>]
  ELSE LET rest == SubSeq(data, h.pos + 1, Len(data))
           n == IF Len(rest) < len THEN Len(rest) ELSE len
       IN [handle |-> h, bytes |-> SubSeq(rest, 1, n)]

file_read(fls, h, len) ==
  LET data == fls[h.inner].data IN
  IF h.pos > Len(data) THEN [handle |-> h, bytes |-> <<>>]
  ELSE LET rest == SubSeq(data, h.pos + 1, Len(data))
           n == IF Len(rest) < len THEN Len(rest) ELSE len
       IN [handle |-> [h EXCEPT !.pos = h.pos + n], bytes |-> SubSeq(rest, 1, n)]

\* std::io::Seek::seek: the error, the handle it leaves and the u64 returned.
SeekOk(h, pos) == [err |-> "Ok", handle |-> [h EXCEPT !.pos = pos], ret |-> pos]
SeekFail(h, err) == [err |-> err, handle |-> h, ret |-> 0]

\* SeekFrom::Start(n), n a u64: self.pos = n as usize.
file_seek_start(fls, h, n) == SeekOk(h, n)

\* SeekFrom::End(n), n an i64. `-n` overflows for i64::MIN and
\* `len as i64 + n` overflows past i64::MAX: a build with overflow checks
\* panics there, a build without them wraps.
file_seek_end(fls, h, n) ==
  IF n = IMin /\ overflow_checks THEN SeekFail(h, "Panic")
  ELSE IF (IF n = IMin THEN IMin ELSE 0 - n) > Len(fls[h.inner].data)
  THEN SeekFail(h, "SeekBeforeStart")
  ELSE IF Len(fls[h.inner].data) + n > IMax /\ overflow_checks THEN SeekFail(h, "Panic")
  ELSE SeekOk(h, AsUsize(Len(fls[h.inner].data) + n))

\* SeekFrom::Current(n), n an i64: self.pos.wrapping_add(n as usize).
file_seek_current(fls, h, n) == SeekOk(h, AsUsize(h.pos + AsUsize(n)))

\* seek(pos): `match pos`, pos = [from, n].
file_seek(fls, h, pos) ==
  CASE pos.from = "Start" -> file_seek_start(fls, h, pos.n)
    [] pos.from = "End" -> file_seek_end(fls, h, pos.n)
    [] OTHER -> file_seek_current(fls, h, pos.n)

\* std::io::Read::read_to_end: read until a read returns no bytes, through a
\* buffer of len bytes.
RECURSIVE read_to_end(_, _, _)
read_to_end(fls, h, len) ==
  The({ IF r.bytes = <<>> THEN <<>> ELSE r.bytes \o read_to_end(fls, r.handle, len)
        : r \in {file_read(fls, h, len)} })

---------------------------------------------------------------------------
\* The inputs of the operations.

SeqsUpTo(S, n) == UNION {[1..k -> S] : k \in 0..n}

AbsPaths == {<<"/">> \o p : p \in SeqsUpTo(Names, MaxDepth)}
\* The empty path, a relative path, and one with a ".." to fold.
OtherPaths == {<<>>, <<"a">>, <<"..", "b">>}
InputPaths == AbsPaths \cup OtherPaths

\* Symlink targets: absolute, relative, and relative through "..".
Targets == {<<"/", "a">>, <<"/", "b">>, <<"b">>, <<"..", "a", "b">>}

Data == SeqsUpTo(Bytes, MaxLen)
\* The byte strings of a write that is read back.
Payloads == SeqsUpTo(Bytes, MaxWrite)

OptionSet == {Options(c, t, a, n) : c \in BOOLEAN, t \in BOOLEAN, a \in BOOLEAN, n \in BOOLEAN}

---------------------------------------------------------------------------
\* The state machine: one action per operation, on the system Cur.

Cur == [root |-> system_root, files |-> files, cwd |-> cwd]

RECURSIVE FileIds(_)
FileIds(es) ==
  UNION {CASE es[i].kind = "File" -> {es[i].inner}
           [] es[i].kind = "Directory" -> FileIds(es[i].entries)
           [] OTHER -> {} : i \in 1..Len(es)}

RECURSIVE TreeSize(_)
RECURSIVE SizeFrom(_, _)
TreeSize(es) == SizeFrom(es, 1)
SizeFrom(es, i) ==
  IF i > Len(es) THEN 0 ELSE 1 + TreeSize(es[i].entries) + SizeFrom(es, i + 1)

\* A heap that frees a FileInner as soon as no File of the tree holds it.
Collect_tree_only(root, hs, fls) ==
  LET live == FileIds(root)
      top == IF live = {} THEN 0 ELSE CHOOSE m \in live : \A x \in live : x <= m
  IN [i \in 1..top |-> IF i \in live THEN fls[i] ELSE Free]

\* Dropping the last Arc of a FileInner frees it.
Collect(root, hs, fls) ==
  LET live == FileIds(root) \cup {hs[i].inner : i \in 1..Len(hs)}
      top == IF live = {} THEN 0 ELSE CHOOSE m \in live : \A x \in live : x <= m
  IN [i \in 1..top |-> IF i \in live THEN fls[i] ELSE Free]

\* The state an operation leaves, kept within the bounds of the model.
Commit(s, hs) ==
  /\ TreeSize(s.root) <= MaxEntries + 1
  /\ Len(Collect(s.root, hs, s.files)) <= MaxFiles
  /\ system_root' = s.root
  /\ cwd' = s.cwd
  /\ files' = Collect(s.root, hs, s.files)
  /\ handles' = hs
  /\ UNCHANGED <<bsImpl, overflow_checks, res_path, res_seen, res_state,
                 normVars, threadVars, read_dir_iter, randVars>>

CreateDirAll(p) ==
  /\ p \in InputPaths
  /\ Commit(base_fs_create_dir_all(Cur, p).s, handles)

\* open, the handle dropped at once: what stays is the file it created or
\* truncated.
Open(p, o) ==
  /\ p \in InputPaths
  /\ Commit(base_fs_open(Cur, p, o).s, handles)

Write(p, data) ==
  /\ p \in InputPaths
  /\ Commit(base_fs_write(Cur, p, data).s, handles)

RemoveFile(p) ==
  /\ p \in InputPaths
  /\ Commit(base_fs_remove_file(Cur, p).s, handles)

Rename(p, q) ==
  /\ p \in InputPaths
  /\ Commit(base_fs_rename(Cur, p, q).s, handles)

Symlink(t, p) ==
  /\ p \in InputPaths
  /\ Commit(base_fs_symlink_file(Cur, t, p).s, handles)

HardLink(p, q) ==
  /\ p \in InputPaths
  /\ Commit(base_fs_hard_link(Cur, p, q).s, handles)

\* InMemorySys::default()
Empty == [root |-> <<>>, files |-> <<>>, cwd |-> <<"/">>]

Init ==
  /\ system_root = Empty.root
  /\ cwd = Empty.cwd
  /\ files = Empty.files
  /\ handles = <<>>
  /\ bsImpl \in {"classic", "branchless"}
  /\ overflow_checks = FALSE
  /\ res_path = <<>>
  /\ res_seen = {}
  /\ res_state = "idle"
  /\ NormIdle
  /\ ThreadsIdle
  /\ NoIter
  /\ RandIdle

Next ==
  \/ \E p \in InputPaths : CreateDirAll(p)
  \/ \E p \in InputPaths, o \in {x \in OptionSet : ~x.append} : Open(p, o)
  \/ \E p \in InputPaths, data \in Data : Write(p, data)
  \/ \E p \in InputPaths : RemoveFile(p)
  \/ \E p \in InputPaths, q \in InputPaths : Rename(p, q)
  \/ \E t \in Targets, p \in InputPaths : Symlink(t, p)
  \/ \E p \in InputPaths, q \in InputPaths : HardLink(p, q)

Spec == Init /\ [][Next]_vars

-----------------------------------------------------------------------------
\* The loop of lookup_entry_detail, one round per step, on a tree that
\* create_dir_all, write and symlink have built. res_state is "idle" before
\* the call, "running" inside the loop, and afterwards what the call
\* returned: "Found", "NotFound", or the error.

BuildDir(p) ==
  /\ res_state = "idle"
  /\ CreateDirAll(p)

BuildFile(p) ==
  /\ res_state = "idle"
  /\ Write(p, <<>>)

BuildLink(t, p) ==
  /\ res_state = "idle"
  /\ Symlink(t, p)

\* let mut seen_entries = HashSet::new(); let mut path = Cow::Borrowed(path);
ResolveStart(p) ==
  /\ res_state = "idle"
  /\ res_path' = p
  /\ res_seen' = {}
  /\ res_state' = "running"
  /\ UNCHANGED <<system_root, cwd, files, handles, bsImpl, overflow_checks,
                 normVars, threadVars, read_dir_iter, randVars>>

\* One iteration of `loop { match self.lookup_entry_detail_no_follow(&path)? ... }`
ResolveRound ==
  /\ res_state = "running"
  /\ \E r \in {FollowRound(system_root, res_path, res_seen)} :
       /\ res_seen' = r.seen
       /\ res_path' = IF r.tag = "Continue" THEN r.path ELSE res_path
       /\ res_state' = CASE r.tag = "Continue" -> "running"
                          [] r.tag = "Err" -> r.err
                          [] OTHER -> r.tag
  /\ UNCHANGED <<system_root, cwd, files, handles, bsImpl, overflow_checks,
                 normVars, threadVars, read_dir_iter, randVars>>

NextResolve ==
  \/ \E p \in InputPaths : BuildDir(p)
  \/ \E p \in InputPaths : BuildFile(p)
  \/ \E t \in Targets, p \in InputPaths : BuildLink(t, p)
  \/ \E p \in InputPaths : ResolveStart(p)
  \/ ResolveRound

\* The loop keeps running until it returns.
SpecResolve == Init /\ [][NextResolve]_vars /\ WF_vars(ResolveRound)

-----------------------------------------------------------------------------
\* Handles: files are opened and the InMemoryFile handles are kept, written
\* through, read through, moved and dropped. The profile of the build, with
\* or without overflow checks, is either one.

FilePaths == {<<"/">>, <<"/", "a">>}

\* SeekFrom values: Start takes a u64, End and Current an i64.
SeekFroms ==
  {[from |-> "Start", n |-> n] : n \in 0..UMax}
    \cup {[from |-> f, n |-> n] : f \in {"End", "Current"}, n \in IMin..IMax}

\* The byte strings written through a handle.
Bufs == SeqsUpTo({1}, MaxLen)

\* No file the handles reach is longer than the model follows.
WithinData(fls) == \A i \in 1..Len(fls) : Len(fls[i].data) <= MaxData

HandleMkdir ==
  /\ system_root = <<>>
  /\ CreateDirAll(<<"/">>)

HandleOpen(p, o) ==
  /\ Len(handles) < MaxHandles
  /\ \E r \in {base_fs_open(Cur, p, o)} :
       /\ r.err = "Ok"
       /\ Commit(r.s, Append(handles, r.handle))

\* A write that moves the cursor of every handle on the file.
HandleWrite_shared_cursor(i, buf) ==
  /\ i \in 1..Len(handles)
  /\ \E w \in {file_write(files, handles[i], buf)} :
       /\ WithinData(w.files)
       /\ Commit([Cur EXCEPT !.files = w.files],
                 [j \in 1..Len(handles) |->
                    IF handles[j].inner = handles[i].inner THEN w.handle ELSE handles[j]])

HandleWrite(i, buf) ==
  /\ i \in 1..Len(handles)
  /\ \E w \in {file_write(files, handles[i], buf)} :
       /\ WithinData(w.files)
       /\ Commit([Cur EXCEPT !.files = w.files], [handles EXCEPT ![i] = w.handle])

HandleRead(i, len) ==
  /\ i \in 1..Len(handles)
  /\ Commit(Cur, [handles EXCEPT ![i] = file_read(files, handles[i], len).handle])

HandleSeek(i, pos) ==
  /\ i \in 1..Len(handles)
  /\ Commit(Cur, [handles EXCEPT ![i] = file_seek(files, handles[i], pos).handle])

\* The handle is dropped.
HandleClose(i) ==
  /\ i \in 1..Len(handles)
  /\ Commit(Cur, RemoveAt(handles, i))

InitFile ==
  /\ system_root = Empty.root
  /\ cwd = Empty.cwd
  /\ files = Empty.files
  /\ handles = <<>>
  /\ bsImpl \in {"classic", "branchless"}
  /\ overflow_checks \in BOOLEAN
  /\ res_path = <<>>
  /\ res_seen = {}
  /\ res_state = "idle"
  /\ NormIdle
  /\ ThreadsIdle
  /\ NoIter
  /\ RandIdle

NextFile ==
  \/ HandleMkdir
  \/ \E p \in FilePaths, o \in OptionSet : HandleOpen(p, o)
  \/ \E i \in 1..MaxHandles, buf \in Bufs : HandleWrite(i, buf)
  \/ \E i \in 1..MaxHandles, len \in 1..MaxLen : HandleRead(i, len)
  \/ \E i \in 1..MaxHandles, pos \in SeekFroms : HandleSeek(i, pos)
  \/ \E i \in 1..MaxHandles : HandleClose(i)

SpecFile == InitFile /\ [][NextFile]_vars

-----------------------------------------------------------------------------
\* normalize_path, one component of the path per step.

\* The paths given to normalize_path: relative and absolute, of "." and
\* ".." and names.
NormPaths ==
  {root \o p : root \in {<<>>, <<"/">>},
               p \in SeqsUpTo({".", "..", "a", "b"}, MaxComps)}

\* The loop takes the next component and leaves ret.
NormTake(ret) ==
  /\ norm_ret' = ret
  /\ norm_components' = Tail(norm_components)
  /\ UNCHANGED <<norm_path, system_root, cwd, files, handles, bsImpl,
                 overflow_checks, res_path, res_seen, res_state, threadVars,
                 read_dir_iter, randVars>>

\* Component::RootDir => ret.push(component.as_os_str())
NormalizeRootDir ==
  /\ norm_components # <<>>
  /\ Head(norm_components) = "/"
  /\ NormTake(<<"/">>)

\* Component::CurDir => {}
NormalizeCurDir ==
  /\ norm_components # <<>>
  /\ Head(norm_components) = "."
  /\ NormTake(norm_ret)

\* Component::ParentDir => ret.pop()
NormalizeParentDir ==
  /\ norm_components # <<>>
  /\ Head(norm_components) = ".."
  /\ NormTake(PathPop(norm_ret))

\* Component::Normal(c) => ret.push(c)
NormalizeNormal ==
  /\ norm_components # <<>>
  /\ Head(norm_components) \notin {"/", ".", ".."}
  /\ NormTake(Append(norm_ret, Head(norm_components)))

\* The path returned is given to normalize_path again.
NormalizeAgain ==
  /\ norm_components = <<>>
  /\ norm_path # norm_ret
  /\ norm_path' = norm_ret
  /\ norm_components' = norm_ret
  /\ norm_ret' = <<>>
  /\ UNCHANGED <<system_root, cwd, files, handles, bsImpl, overflow_checks,
                 res_path, res_seen, res_state, threadVars,
                 read_dir_iter, randVars>>

InitNormalize ==
  /\ system_root = Empty.root
  /\ cwd = Empty.cwd
  /\ files = Empty.files
  /\ handles = <<>>
  /\ bsImpl \in {"classic", "branchless"}
  /\ overflow_checks = FALSE
  /\ res_path = <<>>
  /\ res_seen = {}
  /\ res_state = "idle"
  /\ norm_path \in NormPaths
  /\ norm_components = norm_path
  /\ norm_ret = <<>>
  /\ ThreadsIdle
  /\ NoIter
  /\ RandIdle

NextNormalize ==
  \/ NormalizeRootDir
  \/ NormalizeCurDir
  \/ NormalizeParentDir
  \/ NormalizeNormal
  \/ NormalizeAgain

SpecNormalize == InitNormalize /\ [][NextNormalize]_vars

-----------------------------------------------------------------------------
\* Threads. An InMemorySys is an Arc<RwLock<InMemorySysInner>> that several
\* threads call into; every FileInner has a RwLock of its own. A call is
\* followed from one acquisition or release of the lock of the tree to the
\* next; what a thread does holding only the lock of one FileInner is one
\* step. handles[t] is the InMemoryFile thread t keeps. Directories and
\* symlinks get their modified_time when they are made and keep it.

\* The calls that take self.0.write() in their first statement.
StructuralCalls ==
  {Call("create_dir_all", <<"/">>, <<>>),
   Call("open", <<"/", "a">>, <<>>),
   Call("remove_file", <<"/", "b">>, <<>>),
   Call("rename", <<"/", "a">>, <<"/", "b">>),
   Call("symlink_file", <<"/", "b">>, <<"/", "a">>)}

\* Where a thread stands inside one of them.
StructuralPcs ==
  {"create_dir_all", "open", "remove_file", "rename", "rename_detached", "symlink_file"}

\* The options of the open a thread calls: create a file that is missing.
ThreadOptions == Options(TRUE, FALSE, FALSE, FALSE)

\* The threads that keep the InMemoryFile open returns and work through
\* it, the ones that call base_fs_write, the ones that call
\* symlink_metadata. The others drop the handle as open returns.
HandleThreads == {MaxThreads}
FsWriteThreads == {1}
MetadataThreads == {MaxThreads}

Unlocked == [writer |-> 0, readers |-> {}]

WasLive(fls, id) == id \in 1..Len(fls) /\ fls[id].live

\* The Arcs of the entry a rename has taken out of the tree.
Detached(thr) ==
  [i \in 1..MaxFiles |->
     IF \E t \in Threads : i \in FileIds(<<thr[t].file_entry>>)
     THEN [inner |-> i, pos |-> 0] ELSE NoHandle]

\* Every Arc<RwLock<FileInner>> some thread holds: in the InMemoryFile it
\* keeps, in the `file` of a base_fs_write under way, in the file_entry of
\* a rename under way.
Held(hs, thr) == hs \o [t \in Threads |-> thr[t].file] \o Detached(thr)

\* The step of a thread leaves the tree s, the handles hs, the threads thr,
\* the lock lk and the modified times mt.
ThreadCommit(s, hs, thr, lk, mt) ==
  /\ TreeSize(s.root) <= MaxEntries + 1
  /\ Len(Collect(s.root, Held(hs, thr), s.files)) <= MaxFiles
  /\ system_root' = s.root
  /\ cwd' = s.cwd
  /\ files' = Collect(s.root, Held(hs, thr), s.files)
  /\ handles' = hs
  /\ threads' = thr
  /\ lock' = lk
  /\ modified_time' = mt
  /\ UNCHANGED <<clock, bsImpl, overflow_checks, res_path, res_seen, res_state,
                 normVars, read_dir_iter, randVars>>

\* The thread t returns from its call.
Returned(t) == [threads EXCEPT ![t] = IdleThread]

\* SystemTime::now() moves on.
Tick ==
  /\ clock < MaxClock
  /\ clock' = clock + 1
  /\ UNCHANGED <<system_root, cwd, files, handles, bsImpl, overflow_checks,
                 res_path, res_seen, res_state, normVars, lock, threads,
                 modified_time, read_dir_iter, randVars>>

\* A lock that is taken without waiting for the readers or the writer.
WriteLock_no_wait(t, call) ==
  /\ threads[t].pc = "idle"
  /\ call \in StructuralCalls
  /\ ThreadCommit(Cur, handles,
                  [threads EXCEPT ![t].pc = call.op, ![t].call = call],
                  [lock EXCEPT !.writer = t], modified_time)

\* let mut inner = self.0.write(); the first statement of create_dir_all,
\* open, remove_file, rename and symlink_file.
WriteLock(t, call) ==
  /\ threads[t].pc = "idle"
  /\ call \in StructuralCalls
  /\ lock = Unlocked
  /\ ThreadCommit(Cur, handles,
                  [threads EXCEPT ![t].pc = call.op, ![t].call = call],
                  [lock EXCEPT !.writer = t], modified_time)

CreateDirAllBody(t) ==
  /\ threads[t].pc = "create_dir_all"
  /\ ThreadCommit(base_fs_create_dir_all(Cur, threads[t].call.p).s, handles,
                  Returned(t), Unlocked, modified_time)

\* modified_time after open returned r at the time now: a file created and
\* a file truncated get now.
OpenTimes(fls, options, r, now) ==
  IF r.err = "Ok" /\ (~WasLive(fls, r.handle.inner) \/ options.truncate)
  THEN [modified_time EXCEPT ![r.handle.inner] = now]
  ELSE modified_time

\* open: a thread that keeps the handle drops the one it had.
OpenBody(t) ==
  /\ threads[t].pc = "open"
  /\ \E r \in {base_fs_open(Cur, threads[t].call.p, ThreadOptions)} :
       ThreadCommit(r.s,
                    IF r.err = "Ok" /\ t \in HandleThreads
                    THEN [handles EXCEPT ![t] = r.handle] ELSE handles,
                    Returned(t), Unlocked,
                    OpenTimes(files, ThreadOptions, r, clock))

RemoveFileBody(t) ==
  /\ threads[t].pc = "remove_file"
  /\ ThreadCommit(base_fs_remove_file(Cur, threads[t].call.p).s, handles,
                  Returned(t), Unlocked, modified_time)

\* rename up to `let file_entry = from_parent.entries.remove(from_idx);`,
\* or to the error it returns before.
RenameDetach(t) ==
  /\ threads[t].pc = "rename"
  /\ \E from \in {to_absolute_path(cwd, threads[t].call.p)} :
       IF ~HasParent(from) \/ ~HasFileName(from)
       THEN ThreadCommit(Cur, handles, Returned(t), Unlocked, modified_time)
       ELSE \E fp \in {find_directory_mut(system_root, Parent(from), FALSE)} :
         IF fp.err # "Ok"
         THEN ThreadCommit(Cur, handles, Returned(t), Unlocked, modified_time)
         ELSE \E fbs \in {binary_search_by(bsImpl, EntriesAt(fp.root, fp.ipath),
                                           FileName(from))} :
           IF ~fbs.found
           THEN ThreadCommit(Cur, handles, Returned(t), Unlocked, modified_time)
           ELSE ThreadCommit(
                  [Cur EXCEPT !.root =
                     SetEntriesAt(fp.root, fp.ipath,
                                  RemoveAt(EntriesAt(fp.root, fp.ipath), fbs.pos))],
                  handles,
                  [threads EXCEPT ![t].pc = "rename_detached",
                                  ![t].from_idx = fbs.pos,
                                  ![t].file_entry = EntriesAt(fp.root, fp.ipath)[fbs.pos]],
                  lock, modified_time)

\* rename from there to its return.
RenameFinish(t) ==
  /\ threads[t].pc = "rename_detached"
  /\ \E from \in {to_absolute_path(cwd, threads[t].call.p)},
        to \in {to_absolute_path(cwd, threads[t].call.q)} :
       IF ~HasParent(to) \/ ~HasFileName(to)
       \* from_parent.entries.insert(from_idx, file_entry)
       THEN ThreadCommit(
              RenameRestore(Cur, system_root, Parent(from), threads[t].from_idx,
                            threads[t].file_entry, "CannotRenameToRoot").s,
              handles, Returned(t), Unlocked, modified_time)
       ELSE ThreadCommit(
              RenameInto(Cur, from, to, threads[t].from_idx, threads[t].file_entry,
                         find_directory_mut(system_root, Parent(to), TRUE)).s,
              handles, Returned(t), Unlocked, modified_time)

SymlinkBody(t) ==
  /\ threads[t].pc = "symlink_file"
  /\ ThreadCommit(base_fs_symlink_file(Cur, threads[t].call.q, threads[t].call.p).s,
                  handles, Returned(t), Unlocked, modified_time)

\* let inner = self.0.read(); the first statement of symlink_metadata.
ReadLock(t, p) ==
  /\ threads[t].pc = "idle"
  /\ lock.writer = 0
  /\ ThreadCommit(Cur, handles,
                  [threads EXCEPT ![t].pc = "symlink_metadata",
                                  ![t].call = Call("symlink_metadata", p, <<>>)],
                  [lock EXCEPT !.readers = @ \cup {t}], modified_time)

\* symlink_metadata looks the path up and returns.
MetadataBody(t) ==
  /\ threads[t].pc = "symlink_metadata"
  /\ ThreadCommit(Cur, handles, Returned(t),
                  [lock EXCEPT !.readers = @ \ {t}], modified_time)

\* base_fs_write: let time_now = self.sys_time_now();
FsWriteTime(t, p, data) ==
  /\ threads[t].pc = "idle"
  /\ lock.writer = 0
  /\ ThreadCommit(Cur, handles,
                  [threads EXCEPT ![t].pc = "fs_write_open",
                                  ![t].call = Call("fs_write", p, data),
                                  ![t].time = clock],
                  lock, modified_time)

\* base_fs_write: let file = self.fs_open(path, &opts)?; open takes the
\* lock of the tree, reads the clock, and has released the lock when it
\* returns.
FsWriteOpen(t) ==
  /\ threads[t].pc = "fs_write_open"
  /\ lock = Unlocked
  /\ \E r \in {base_fs_open(Cur, threads[t].call.p, Options(TRUE, TRUE, FALSE, FALSE))} :
       ThreadCommit(r.s, handles,
                    IF r.err = "Ok"
                    THEN [threads EXCEPT ![t].pc = "fs_write_store", ![t].file = r.handle]
                    ELSE Returned(t),
                    lock,
                    OpenTimes(files, Options(TRUE, TRUE, FALSE, FALSE), r, clock))

\* base_fs_write: let mut inner = file.inner.write(); the data replace the
\* content, inner.modified_time = time_now; and file is dropped.
FsWriteStore(t) ==
  /\ threads[t].pc = "fs_write_store"
  /\ ThreadCommit([Cur EXCEPT !.files[threads[t].file.inner].data = threads[t].call.q],
                  handles, Returned(t), lock,
                  [modified_time EXCEPT ![threads[t].file.inner] = threads[t].time])

\* InMemoryFile::write: self.sys.sys_time_now() takes self.0.read().
WriteTimeLock(t, buf) ==
  /\ threads[t].pc = "idle"
  /\ handles[t] # NoHandle
  /\ handles[t].pos + Len(buf) <= MaxLen
  /\ lock.writer = 0
  /\ ThreadCommit(Cur, handles,
                  [threads EXCEPT ![t].pc = "write_time",
                                  ![t].call = Call("write", <<>>, buf)],
                  [lock EXCEPT !.readers = @ \cup {t}], modified_time)

\* InMemoryFile::write: let time = (the lock held).time_now(); the lock is
\* released at the end of the statement.
WriteTime(t) ==
  /\ threads[t].pc = "write_time"
  /\ ThreadCommit(Cur, handles,
                  [threads EXCEPT ![t].pc = "write_store", ![t].time = clock],
                  [lock EXCEPT !.readers = @ \ {t}], modified_time)

\* InMemoryFile::write: let mut inner = self.inner.write(); and the rest.
WriteStore(t) ==
  /\ threads[t].pc = "write_store"
  /\ \E w \in {file_write(files, handles[t], threads[t].call.q)} :
       ThreadCommit([Cur EXCEPT !.files = w.files],
                    [handles EXCEPT ![t] = w.handle],
                    Returned(t), lock,
                    [modified_time EXCEPT ![handles[t].inner] = threads[t].time])

\* InMemoryFile::read takes self.inner.read() alone.
ThreadRead(t, len) ==
  /\ threads[t].pc = "idle"
  /\ handles[t] # NoHandle
  /\ ThreadCommit(Cur, [handles EXCEPT ![t] = file_read(files, handles[t], len).handle],
                  threads, lock, modified_time)

\* InMemoryFile::seek takes self.inner.read(), for SeekFrom::End alone.
ThreadSeek(t, pos) ==
  /\ threads[t].pc = "idle"
  /\ handles[t] # NoHandle
  /\ ThreadCommit(Cur, [handles EXCEPT ![t] = file_seek(files, handles[t], pos).handle],
                  threads, lock, modified_time)

\* The positions the threads seek to.
ThreadSeeks == {[from |-> "Start", n |-> 0]}

InitThreads ==
  /\ system_root = Empty.root
  /\ cwd = Empty.cwd
  /\ files = Empty.files
  /\ handles = [t \in Threads |-> NoHandle]
  /\ bsImpl \in {"classic", "branchless"}
  /\ overflow_checks = FALSE
  /\ res_path = <<>>
  /\ res_seen = {}
  /\ res_state = "idle"
  /\ NormIdle
  /\ ThreadsIdle
  /\ NoIter
  /\ RandIdle

NextThreads ==
  \/ Tick
  \/ \E t \in Threads, call \in StructuralCalls : WriteLock(t, call)
  \/ \E t \in Threads : CreateDirAllBody(t)
  \/ \E t \in Threads : OpenBody(t)
  \/ \E t \in Threads : RemoveFileBody(t)
  \/ \E t \in Threads : RenameDetach(t)
  \/ \E t \in Threads : RenameFinish(t)
  \/ \E t \in Threads : SymlinkBody(t)
  \/ \E t \in MetadataThreads : ReadLock(t, <<"/", "b">>)
  \/ \E t \in Threads : MetadataBody(t)
  \/ \E t \in FsWriteThreads : FsWriteTime(t, <<"/", "a">>, <<1>>)
  \/ \E t \in Threads : FsWriteOpen(t)
  \/ \E t \in Threads : FsWriteStore(t)
  \/ \E t \in HandleThreads : WriteTimeLock(t, <<1>>)
  \/ \E t \in Threads : WriteTime(t)
  \/ \E t \in Threads : WriteStore(t)
  \/ \E t \in Threads : ThreadRead(t, 1)
  \/ \E t \in Threads, pos \in ThreadSeeks : ThreadSeek(t, pos)

SpecThreads == InitThreads /\ [][NextThreads]_vars

-----------------------------------------------------------------------------
\* Threads, lock by lock. At every pc but "idle" the thread waits for the
\* lock its next statement takes, or holds one: lock says who holds the
\* RwLock of the tree, threads[t].guard which RwLock<FileInner> t holds.
\* parking_lot hands a lock that is free again and again to a thread that
\* waits for it.

\* The calls of the threads that write whole files, and of the others.
LockCalls(t) ==
  IF t \in FsWriteThreads
  THEN {Call("create_dir_all", <<"/">>, <<>>),
        Call("fs_write", <<"/", "a">>, <<1>>),
        Call("hard_link", <<"/", "a">>, <<"/", "b">>),
        Call("set_current_dir", <<"/">>, <<>>)}
  ELSE {Call("open", <<"/", "b">>, <<>>),
        Call("write", <<>>, <<1>>),
        Call("fs_read", <<"/", "a">>, <<>>)}

\* Where a call starts: before the first lock it takes.
Entry(op) ==
  CASE op = "create_dir_all" -> "mk_lock"
    [] op = "open" -> "o_lock"
    [] op = "fs_write" -> "w_time"
    [] op = "fs_read" -> "r_lock"
    [] op = "write" -> "hw_time"
    [] op = "hard_link" -> "hl_read"
    [] OTHER -> "cd_read"

\* The pcs at which the next statement takes self.0.read(), self.0.write().
TreeReadPcs == {"w_time", "hw_time", "hl_read", "cd_read"}
TreeWritePcs == {"mk_lock", "o_lock", "w_lock", "r_lock", "cd_write"}

NoGuard == [inner |-> 0, mode |-> "none"]

\* No other thread holds the RwLock of the FileInner id: inner.write().
CanWrite(t, id) ==
  \A u \in Threads \ {t} : ~(threads[u].guard.inner = id /\ threads[u].guard.mode # "none")

\* No other thread holds it to write: inner.read().
CanRead(t, id) ==
  \A u \in Threads \ {t} : ~(threads[u].guard.inner = id /\ threads[u].guard.mode = "write")

\* A thread calls.
Begin(t, call) ==
  /\ threads[t].pc = "idle"
  /\ call.op = "write" =>
       handles[t] # NoHandle /\ handles[t].pos + Len(call.q) <= MaxLen
  /\ ThreadCommit(Cur, handles,
                  [threads EXCEPT ![t].pc = Entry(call.op), ![t].call = call],
                  lock, modified_time)

\* self.sys_time_now() in base_fs_write and in InMemoryFile::write:
\* self.0.read().time_now(), the lock released as the statement ends.
TimeNow(t) ==
  /\ threads[t].pc \in {"w_time", "hw_time"}
  /\ lock.writer = 0
  /\ ThreadCommit(Cur, handles,
                  [threads EXCEPT ![t].pc = IF threads[t].pc = "w_time"
                                            THEN "w_lock" ELSE "hw_lock",
                                  ![t].time = clock],
                  lock, modified_time)

\* let mut inner = self.0.write(); in create_dir_all and in open.
TakeWrite(t) ==
  /\ threads[t].pc \in {"mk_lock", "o_lock", "w_lock", "r_lock"}
  /\ lock = Unlocked
  /\ ThreadCommit(Cur, handles,
                  [threads EXCEPT ![t].pc =
                     CASE threads[t].pc = "mk_lock" -> "mk_body"
                       [] threads[t].pc = "o_lock" -> "o_body"
                       [] threads[t].pc = "w_lock" -> "w_open"
                       [] OTHER -> "r_open"],
                  [lock EXCEPT !.writer = t], modified_time)

MkBody(t) ==
  /\ threads[t].pc = "mk_body"
  /\ ThreadCommit(base_fs_create_dir_all(Cur, threads[t].call.p).s, handles,
                  Returned(t), Unlocked, modified_time)

\* open by a thread that keeps the InMemoryFile.
OBody(t) ==
  /\ threads[t].pc = "o_body"
  /\ \E r \in {base_fs_open(Cur, threads[t].call.p, ThreadOptions)} :
       ThreadCommit(r.s,
                    IF r.err = "Ok" THEN [handles EXCEPT ![t] = r.handle] ELSE handles,
                    Returned(t), Unlocked,
                    OpenTimes(files, ThreadOptions, r, clock))

\* base_fs_write: let file = self.fs_open(path, &opts)?; under the lock of
\* the tree, open truncates a file that exists: f.inner.write(),
\* fi.data.clear(). It returns with both locks released.
WOpen(t) ==
  /\ threads[t].pc = "w_open"
  /\ \E r \in {base_fs_open(Cur, threads[t].call.p, Options(TRUE, TRUE, FALSE, FALSE))} :
       /\ (r.err = "Ok" /\ WasLive(files, r.handle.inner)) => CanWrite(t, r.handle.inner)
       /\ ThreadCommit(r.s, handles,
                       IF r.err = "Ok"
                       THEN [threads EXCEPT
                               ![t].pc = "w_store", ![t].file = r.handle,
                               ![t].old = IF WasLive(files, r.handle.inner)
                                          THEN [some |-> TRUE,
                                                data |-> files[r.handle.inner].data]
                                          ELSE [some |-> FALSE, data |-> <<>>]]
                       ELSE Returned(t),
                       Unlocked,
                       OpenTimes(files, Options(TRUE, TRUE, FALSE, FALSE), r, clock))

\* base_fs_write: let mut inner = file.inner.write();
WLock(t) ==
  /\ threads[t].pc = "w_store"
  /\ CanWrite(t, threads[t].file.inner)
  /\ ThreadCommit(Cur, handles,
                  [threads EXCEPT ![t].pc = "w_locked",
                                  ![t].guard = [inner |-> threads[t].file.inner,
                                                mode |-> "write"]],
                  lock, modified_time)

\* base_fs_write: the data replace the content, inner.modified_time =
\* time_now; inner and file are dropped.
WStore(t) ==
  /\ threads[t].pc = "w_locked"
  /\ ThreadCommit([Cur EXCEPT !.files[threads[t].file.inner].data = threads[t].call.q],
                  handles, Returned(t), lock,
                  [modified_time EXCEPT ![threads[t].file.inner] = threads[t].time])

\* base_fs_read: let arc_file = self.fs_open(path, &OpenOptions::read())?;
ROpen(t) ==
  /\ threads[t].pc = "r_open"
  /\ \E r \in {base_fs_open(Cur, threads[t].call.p, Options(FALSE, FALSE, FALSE, FALSE))} :
       ThreadCommit(r.s, handles,
                    IF r.err = "Ok"
                    THEN [threads EXCEPT ![t].pc = "r_copy", ![t].file = r.handle]
                    ELSE Returned(t),
                    Unlocked, modified_time)

\* base_fs_read: let inner = arc_file.inner.read();
RLock(t) ==
  /\ threads[t].pc = "r_copy"
  /\ CanRead(t, threads[t].file.inner)
  /\ ThreadCommit(Cur, handles,
                  [threads EXCEPT ![t].pc = "r_locked",
                                  ![t].guard = [inner |-> threads[t].file.inner,
                                                mode |-> "read"]],
                  lock, modified_time)

\* base_fs_read returns inner.data.clone(), the content it finds.
RCopy(t) ==
  /\ threads[t].pc = "r_locked"
  /\ ThreadCommit(Cur, handles, Returned(t), lock, modified_time)

\* InMemoryFile::write: let mut inner = self.inner.write();
HwLock(t) ==
  /\ threads[t].pc = "hw_lock"
  /\ CanWrite(t, handles[t].inner)
  /\ ThreadCommit(Cur, handles,
                  [threads EXCEPT ![t].pc = "hw_locked",
                                  ![t].guard = [inner |-> handles[t].inner,
                                                mode |-> "write"]],
                  lock, modified_time)

\* InMemoryFile::write: resize, splice, modified_time, pos.
HwStore(t) ==
  /\ threads[t].pc = "hw_locked"
  /\ \E w \in {file_write(files, handles[t], threads[t].call.q)} :
       ThreadCommit([Cur EXCEPT !.files = w.files],
                    [handles EXCEPT ![t] = w.handle],
                    Returned(t), lock,
                    [modified_time EXCEPT ![handles[t].inner] = threads[t].time])

\* hard_link: let inner = self.0.read();
TakeRead(t) ==
  /\ threads[t].pc = "hl_read"
  /\ lock.writer = 0
  /\ ThreadCommit(Cur, handles, [threads EXCEPT ![t].pc = "hl_lookup"],
                  [lock EXCEPT !.readers = @ \cup {t}], modified_time)

\* hard_link: inner.lookup_entry(&src)?; a directory and a symlink are
\* errors.
HlLookup(t) ==
  /\ threads[t].pc = "hl_lookup"
  /\ \E r \in {lookup_entry(system_root, to_absolute_path(cwd, threads[t].call.p))} :
       IF r.tag = "Err" \/ r.entry.kind # "File"
       THEN ThreadCommit(Cur, handles, Returned(t),
                         [lock EXCEPT !.readers = @ \ {t}], modified_time)
       ELSE ThreadCommit(Cur, handles,
                         [threads EXCEPT ![t].pc = "hl_file",
                                         ![t].file = [inner |-> r.entry.inner, pos |-> 0]],
                         lock, modified_time)

\* hard_link: let inner = file.inner.read();
HlCopy(t) ==
  /\ threads[t].pc = "hl_file"
  /\ CanRead(t, threads[t].file.inner)
  /\ ThreadCommit(Cur, handles,
                  [threads EXCEPT ![t].pc = "hl_copied",
                                  ![t].guard = [inner |-> threads[t].file.inner,
                                                mode |-> "read"]],
                  lock, modified_time)

\* hard_link that calls fs_write with the lock of the tree still held.
HlDrop_keeps_lock(t) ==
  /\ threads[t].pc = "hl_copied"
  /\ ThreadCommit(Cur, handles,
                  [threads EXCEPT
                     ![t].pc = "w_time",
                     ![t].call = Call("fs_write",
                                      to_absolute_path(cwd, threads[t].call.q),
                                      files[threads[t].file.inner].data),
                     ![t].file = NoHandle,
                     ![t].guard = NoGuard],
                  lock, modified_time)

\* hard_link: inner.data.clone(), the guard of the file dropped as the
\* block ends; drop(inner); and self.fs_write(&dst, data)? is called.
HlDrop(t) ==
  /\ threads[t].pc = "hl_copied"
  /\ ThreadCommit(Cur, handles,
                  [threads EXCEPT
                     ![t].pc = "w_time",
                     ![t].call = Call("fs_write",
                                      to_absolute_path(cwd, threads[t].call.q),
                                      files[threads[t].file.inner].data),
                     ![t].file = NoHandle,
                     ![t].guard = NoGuard],
                  [lock EXCEPT !.readers = @ \ {t}], modified_time)

\* set_current_dir: let path = self.fs_canonicalize(path)?;
CdRead(t) ==
  /\ threads[t].pc = "cd_read"
  /\ lock.writer = 0
  /\ \E c \in {base_fs_canonicalize(Cur, threads[t].call.p)} :
       ThreadCommit(Cur, handles,
                    IF c.err = "Ok"
                    THEN [threads EXCEPT ![t].pc = "cd_write", ![t].call.q = c.path]
                    ELSE Returned(t),
                    lock, modified_time)

\* set_current_dir: self.0.write().cwd = path;
CdWrite(t) ==
  /\ threads[t].pc = "cd_write"
  /\ lock = Unlocked
  /\ ThreadCommit([Cur EXCEPT !.cwd = threads[t].call.q], handles,
                  Returned(t), lock, modified_time)

\* What a thread does inside a call.
Step(t) ==
  \/ TimeNow(t)
  \/ TakeWrite(t)
  \/ MkBody(t)
  \/ OBody(t)
  \/ WOpen(t)
  \/ WLock(t)
  \/ WStore(t)
  \/ ROpen(t)
  \/ RLock(t)
  \/ RCopy(t)
  \/ HwLock(t)
  \/ HwStore(t)
  \/ TakeRead(t)
  \/ HlLookup(t)
  \/ HlCopy(t)
  \/ HlDrop(t)
  \/ CdRead(t)
  \/ CdWrite(t)

NextLocks ==
  \/ \E t \in Threads : \E call \in LockCalls(t) : Begin(t, call)
  \/ \E t \in Threads : Step(t)

\* Fair scheduling: a thread that can go on again and again does.
FairThreads == \A t \in Threads : SF_vars(Step(t))

SpecLocks == InitThreads /\ [][NextLocks]_vars /\ FairThreads

\* One thread writes the whole file again and again, the other reads it.
WholeFileCalls(t) ==
  IF t \in FsWriteThreads
  THEN {Call("create_dir_all", <<"/">>, <<>>),
        Call("fs_write", <<"/", "a">>, <<1>>),
        Call("fs_write", <<"/", "a">>, <<2>>)}
  ELSE {Call("fs_read", <<"/", "a">>, <<>>)}

NextWholeFile ==
  \/ \E t \in Threads : \E call \in WholeFileCalls(t) : Begin(t, call)
  \/ \E t \in Threads : TimeNow(t)
  \/ \E t \in Threads : TakeWrite(t)
  \/ \E t \in Threads : MkBody(t)
  \/ \E t \in Threads : WOpen(t)
  \/ \E t \in Threads : WLock(t)
  \/ \E t \in Threads : WStore(t)
  \/ \E t \in Threads : ROpen(t)
  \/ \E t \in Threads : RLock(t)
  \/ \E t \in Threads : RCopy(t)

SpecWholeFile == InitThreads /\ [][NextWholeFile]_vars

-----------------------------------------------------------------------------
\* read_dir: the iterator it returns is kept and taken from while
\* directories and files are made and removed.

DirMkdir(p) ==
  /\ p \in AbsPaths
  /\ CreateDirAll(p)

DirWrite(p) ==
  /\ p \in AbsPaths
  /\ Write(p, <<>>)

DirRemove(p) ==
  /\ p \in AbsPaths
  /\ RemoveFile(p)

\* The variables read_dir and its iterator leave alone.
ReadDirKeeps ==
  UNCHANGED <<system_root, cwd, files, handles, bsImpl, overflow_checks,
              res_path, res_seen, res_state, normVars, threadVars, randVars>>

\* base_fs_read_dir returns Ok: the entries are collected into a Vec, and
\* the iterator is that of the Vec.
ReadDir(p) ==
  /\ ~read_dir_iter.open
  /\ \E r \in {base_fs_read_dir(Cur, p)} :
       /\ r.err = "Ok"
       /\ read_dir_iter' = [open |-> TRUE, path |-> p, entries |-> r.entries, next |-> 1]
  /\ ReadDirKeeps

\* Iterator::next returns Some(entry).
DirNext ==
  /\ read_dir_iter.open
  /\ read_dir_iter.next <= Len(read_dir_iter.entries)
  /\ read_dir_iter' = [read_dir_iter EXCEPT !.next = @ + 1]
  /\ ReadDirKeeps

\* The iterator is dropped.
DirDrop ==
  /\ read_dir_iter.open
  /\ read_dir_iter' = [open |-> FALSE, path |-> <<>>, entries |-> <<>>, next |-> 1]
  /\ ReadDirKeeps

NextReadDir ==
  \/ \E p \in AbsPaths : DirMkdir(p)
  \/ \E p \in AbsPaths : DirWrite(p)
  \/ \E p \in AbsPaths : DirRemove(p)
  \/ \E p \in InputPaths : ReadDir(p)
  \/ DirNext
  \/ DirDrop

SpecReadDir == Init /\ [][NextReadDir]_vars

-----------------------------------------------------------------------------
\* sys_random. A u64 is the sequence of its eight bytes, the lowest first,
\* so that wrapping_mul and wrapping_add are those of 64 bits.

RECURSIVE ToBytes(_, _)
ToBytes(n, k) == IF k = 0 THEN <<>> ELSE <<n % 256>> \o ToBytes(n \div 256, k - 1)

U64(n) == ToBytes(n, 8)

\* u64::wrapping_mul by m < 2^23: the carry out of the highest byte is lost.
RECURSIVE MulFrom(_, _, _, _)
MulFrom(x, m, i, carry) ==
  IF i > Len(x) THEN <<>>
  ELSE <<(x[i] * m + carry) % 256>>
         \o MulFrom(x, m, i + 1, (x[i] * m + carry) \div 256)

wrapping_mul(x, m) == MulFrom(x, m, 1, 0)

\* u64::wrapping_add
RECURSIVE AddFrom(_, _, _, _)
AddFrom(x, y, i, carry) ==
  IF i > Len(x) THEN <<>>
  ELSE <<(x[i] + y[i] + carry) % 256>>
         \o AddFrom(x, y, i + 1, (x[i] + y[i] + carry) \div 256)

wrapping_add(x, y) == AddFrom(x, y, 1, 0)

\* state.wrapping_mul(1664525).wrapping_add(1013904223)
LcgStep(state) == wrapping_add(wrapping_mul(state, 1664525), U64(1013904223))

\* (state >> 24) as u8
LcgByte(state) == state[4]

\* random_with_seed(seed, buf) for a buf of len bytes
RECURSIVE RandomFrom(_, _)
RandomFrom(state, len) ==
  IF len = 0 THEN <<>>
  ELSE <<LcgByte(LcgStep(state))>> \o RandomFrom(LcgStep(state), len - 1)

random_with_seed(seed, len) == RandomFrom(seed, len)

\* The seeds set_seed is given: 0, 1, 42, 2^32 and u64::MAX.
Seeds ==
  {U64(0), U64(1), U64(42), <<0, 0, 0, 0, 1, 0, 0, 0>>, [i \in 1..8 |-> 255]}

\* The bytes getrandom is followed with.
EntropyBytes == {0, 255}

\* The variables sys_random and set_seed leave alone.
RandomKeeps ==
  UNCHANGED <<system_root, cwd, files, handles, bsImpl, overflow_checks,
              res_path, res_seen, res_state, normVars, threadVars, read_dir_iter>>

\* No call of sys_random is under way.
RandomReturned == Len(rand_buf) = rand_len

\* set_seed(seed): self.0.write().random_seed = seed
SetSeed(seed) ==
  /\ RandomReturned
  /\ random_seed' = seed
  /\ rand_len' = 0
  /\ rand_buf' = <<>>
  /\ rand_state' = <<>>
  /\ rand_prev' = [some |-> FALSE, bytes |-> <<>>]
  /\ RandomKeeps

\* A call that goes on from the state the call before it left.
RandomStart_goes_on(len) ==
  /\ RandomReturned
  /\ rand_prev' = [some |-> TRUE, bytes |-> rand_buf]
  /\ rand_len' = len
  /\ rand_buf' = <<>>
  /\ rand_state' \in
       IF random_seed.some
       THEN {IF rand_state = <<>> THEN random_seed.seed ELSE rand_state}
       ELSE {U64(0), <<>>}
  /\ UNCHANGED random_seed
  /\ RandomKeeps

\* sys_random(buf) with a buf of len bytes: let mut state = seed; without
\* a seed the build either calls getrandom, and there is no state, or
\* random_with_seed(0, buf).
RandomStart(len) ==
  /\ RandomReturned
  /\ rand_prev' = [some |-> TRUE, bytes |-> rand_buf]
  /\ rand_len' = len
  /\ rand_buf' = <<>>
  /\ rand_state' \in
       IF random_seed.some THEN {random_seed.seed} ELSE {U64(0), <<>>}
  /\ UNCHANGED random_seed
  /\ RandomKeeps

\* One round of `for byte in buf.iter_mut()`.
RandomByte ==
  /\ Len(rand_buf) < rand_len
  /\ rand_state # <<>>
  /\ rand_state' = LcgStep(rand_state)
  /\ rand_buf' = Append(rand_buf, LcgByte(LcgStep(rand_state)))
  /\ UNCHANGED <<random_seed, rand_len, rand_prev>>
  /\ RandomKeeps

\* getrandom::getrandom(buf), a byte at a time.
EntropyByte(b) ==
  /\ Len(rand_buf) < rand_len
  /\ rand_state = <<>>
  /\ rand_buf' = Append(rand_buf, b)
  /\ UNCHANGED <<random_seed, rand_len, rand_state, rand_prev>>
  /\ RandomKeeps

NextRandom ==
  \/ \E seed \in Seeds : SetSeed([some |-> TRUE, seed |-> seed])
  \/ SetSeed([some |-> FALSE, seed |-> <<>>])
  \/ \E len \in 0..MaxBuf : RandomStart(len)
  \/ RandomByte
  \/ \E b \in EntropyBytes : EntropyByte(b)

SpecRandom == Init /\ [][NextRandom]_vars

-----------------------------------------------------------------------------
\* Properties of rename (base_fs_rename) and of the ordering of children.

\* base_fs_rename reaches entries.remove(from_idx): the source entry exists.
RenameDetaches(s, from_path) ==
  LET from == to_absolute_path(s.cwd, from_path) IN
  /\ HasParent(from)
  /\ HasFileName(from)
  /\ LET fp == find_directory_mut(s.root, Parent(from), FALSE) IN
     /\ fp.err = "Ok"
     /\ binary_search_by(bsImpl, EntriesAt(fp.root, fp.ipath), FileName(from)).found

\* C1: whenever rename returns an error after it detached the source entry,
\* the tree after the call is identical to the tree before the call (the
\* entry is back under its original name in its original parent).
C1_RenameErrorRestores ==
  \A p \in InputPaths, q \in InputPaths :
    LET r == base_fs_rename(Cur, p, q) IN
    (RenameDetaches(Cur, p) /\ r.err # "Ok") => r.s.root = system_root

\* The children of one list and of every Directory below it are strictly
\* ascending by name.
RECURSIVE SortedTree(_)
SortedTree(es) ==
  /\ \A i \in 1..(Len(es) - 1) : Cmp(es[i].name, es[i + 1].name) = "Less"
  /\ \A i \in 1..Len(es) : es[i].kind = "Directory" => SortedTree(es[i].entries)

\* C2: in every reachable state the children of every Directory, and the
\* root list, are strictly ascending by name.
C2_ChildrenSorted == SortedTree(system_root)

-----------------------------------------------------------------------------
\* Writing and reading back.

\* Nothing exists at p and the parent of p is a directory.
FreshPath(s, p) ==
  LET abs == to_absolute_path(s.cwd, p) IN
  /\ HasParent(abs)
  /\ HasFileName(abs)
  /\ fs_is_dir(s, Parent(abs)) = [err |-> "Ok", value |-> TRUE]
  /\ base_fs_exists(s, abs) = [err |-> "Ok", value |-> FALSE]

\* fs_write(p, b), then fs_read(p).
WriteThenRead(s, p, b) ==
  LET w == base_fs_write(s, p, b) IN
  IF w.err # "Ok" THEN [err |-> w.err, data |-> <<>>] ELSE base_fs_read(w.s, p)

\* Open p with write and create, write b, seek to Start(0), read to the end
\* through the same handle.
WriteSeekRead(s, p, b) ==
  LET o == base_fs_open(s, p, Options(TRUE, FALSE, FALSE, FALSE)) IN
  IF o.err # "Ok" THEN [err |-> o.err, data |-> <<>>]
  ELSE LET w == file_write(o.s.files, o.handle, b)
           k == file_seek_start(w.files, w.handle, 0)
       IN [err |-> k.err, data |-> read_to_end(w.files, k.handle, MaxLen)]

\* C3: for every byte string b, after b is written to a fresh file at a
\* path p whose parent directory exists, reading p back yields exactly b,
\* through a new handle (whole-file read) and through the same handle after
\* seek Start(0).
C3_WriteReadBack ==
  \A p \in InputPaths, b \in Payloads :
    FreshPath(Cur, p) =>
      /\ WriteThenRead(Cur, p, b) = [err |-> "Ok", data |-> b]
      /\ WriteSeekRead(Cur, p, b) = [err |-> "Ok", data |-> b]

\* A fresh file is written with a non-empty byte string and read back both
\* ways.
C3_Witness ==
  \E p \in InputPaths, b \in Payloads :
    /\ FreshPath(Cur, p)
    /\ Len(b) = MaxWrite
    /\ WriteThenRead(Cur, p, b).data = b
    /\ WriteSeekRead(Cur, p, b).data = b

-----------------------------------------------------------------------------
\* Symlinks: reading through a link, and the resolution loop.

\* l names a Symlink (its last component is the link) and following the
\* chain of targets from it ends at a File.
LinkToFile(s, l) ==
  LET abs == to_absolute_path(s.cwd, l)
      nf == lookup_entry_detail_no_follow(s.root, abs)
      r == lookup_entry(s.root, abs)
  IN /\ nf.tag = "Symlink"
     /\ nf.path = abs
     /\ r.tag = "Found"
     /\ r.entry.kind = "File"

\* C4: if l is a symlink whose chain of targets ends at a regular file f,
\* the whole-file read of l succeeds and returns the content of f.
C4_ReadThroughLink ==
  \A l \in InputPaths :
    LinkToFile(Cur, l) =>
      base_fs_read(Cur, l) =
        [err |-> "Ok",
         data |-> files[lookup_entry(system_root, to_absolute_path(cwd, l)).entry.inner].data]

\* A round that does not return continues with a path that was not in the
\* visited set and now is, and the set only grows.
RoundAddsNewPath ==
  (res_state = "running" /\ res_state' = "running") =>
    /\ res_path' \notin res_seen
    /\ res_path' \in res_seen'
    /\ res_seen \subseteq res_seen'

\* A round whose walk stops at a symlink with a target that is in the
\* visited set (which holds the first link's own path from the first round
\* on) returns the loop error.
RepeatIsLoopError ==
  LET nf == lookup_entry_detail_no_follow(system_root, res_path)
      visited == IF res_seen = {} THEN {nf.path} ELSE res_seen
  IN (res_state = "running" /\ nf.tag = "Symlink" /\ nf.target_path \in visited) =>
       res_state' = "SymlinkLoop"

\* A round returns exactly when its walk did not stop at a symlink, or
\* stopped at one whose target repeats.
RoundReturns ==
  res_state = "running" =>
    res_state' \in {"running", "Found", "NotFound", "SymlinkLoop", "LeadsIntoFile", "EmptyPath"}

\* C5: Follow-resolution terminates on every tree and every path: each
\* round either returns Found, NotFound or an error, or adds a path not yet
\* in the visited set; a repeated path ends the resolution with the loop
\* error; and a resolution that has started returns.
C5_ResolutionTerminates ==
  /\ [][RoundAddsNewPath /\ RepeatIsLoopError /\ RoundReturns]_vars
  /\ (res_state = "running") ~> (res_state # "running")

\* A resolution that followed a link, met a target it had visited and
\* returned the loop error.
C5_Witness ==
  /\ res_state = "SymlinkLoop"
  /\ Cardinality(res_seen) >= 2

\* The path P names a Symlink: the walk reaches its last component and
\* finds a link there.
NamesLink(s, P) ==
  LET nf == lookup_entry_detail_no_follow(s.root, P) IN
  nf.tag = "Symlink" /\ nf.path = P

\* Where the link named by P points: its target, relative to the directory
\* that contains the link.
LinkPointsAt(s, P) ==
  normalize_path(join(Parent(P), lookup_entry_detail_no_follow(s.root, P).entry.target))

\* Following at most k + 1 links from the link P leads back to start.
RECURSIVE LeadsBack(_, _, _, _)
LeadsBack(s, start, P, k) ==
  /\ NamesLink(s, P)
  /\ \/ LinkPointsAt(s, P) = start
     \/ k > 0 /\ LeadsBack(s, start, LinkPointsAt(s, P), k - 1)

OnLinkCycle(s, P) == LeadsBack(s, P, P, MaxEntries)

\* C6: resolving a path that names a symlink lying on a cycle of symlinks
\* (a link that points at itself included) with canonicalize, metadata or
\* read_dir returns the symlink-loop error.
C6_CycleIsLoopError ==
  \A p \in InputPaths :
    LET abs == to_absolute_path(cwd, p) IN
    OnLinkCycle(Cur, abs) =>
      /\ base_fs_canonicalize(Cur, p).err = "SymlinkLoop"
      /\ base_fs_metadata(Cur, abs).err = "SymlinkLoop"
      /\ base_fs_read_dir(Cur, p).err = "SymlinkLoop"

-----------------------------------------------------------------------------
\* Renaming a File.

\* What the walk without following finds at the absolute path P.
IsFileAt(s, P) ==
  LET nf == lookup_entry_detail_no_follow(s.root, P) IN
  nf.tag = "Found" /\ nf.entry.kind = "File"

IsDirAt(s, P) ==
  LET nf == lookup_entry_detail_no_follow(s.root, P) IN
  nf.tag = "Found" /\ nf.entry.kind = "Directory"

AbsentAt(s, P) == lookup_entry_detail_no_follow(s.root, P).tag = "NotFound"

\* The content of the File at P, and the children of the Directory at P.
ContentAt(s, P) == s.files[lookup_entry_detail_no_follow(s.root, P).entry.inner].data
ChildrenAt(s, P) == lookup_entry_detail_no_follow(s.root, P).entry.entries

\* C7: rename(p, q) with p a File, q different from p, and q absent or an
\* existing File succeeds; afterwards exists(p) is false, exists(q) is true
\* and reading q yields the content p had (so the content q had is gone).
C7_RenameFile ==
  \A p \in InputPaths, q \in InputPaths :
    LET ap == to_absolute_path(cwd, p)
        aq == to_absolute_path(cwd, q)
        r == base_fs_rename(Cur, p, q)
    IN (IsFileAt(Cur, ap) /\ aq # ap /\ (AbsentAt(Cur, aq) \/ IsFileAt(Cur, aq))) =>
         /\ r.err = "Ok"
         /\ base_fs_exists(r.s, p) = [err |-> "Ok", value |-> FALSE]
         /\ base_fs_exists(r.s, q) = [err |-> "Ok", value |-> TRUE]
         /\ base_fs_read(r.s, q) = [err |-> "Ok", data |-> ContentAt(Cur, ap)]

\* C8: rename(p, q) with p a File and q an existing Directory returns an
\* error and leaves both unchanged: p is still a File with the same content
\* and q is still a Directory with the same children.
C8_RenameOntoDirectory ==
  \A p \in InputPaths, q \in InputPaths :
    LET ap == to_absolute_path(cwd, p)
        aq == to_absolute_path(cwd, q)
        r == base_fs_rename(Cur, p, q)
    IN (IsFileAt(Cur, ap) /\ IsDirAt(Cur, aq)) =>
         /\ r.err # "Ok"
         /\ IsFileAt(r.s, ap)
         /\ ContentAt(r.s, ap) = ContentAt(Cur, ap)
         /\ IsDirAt(r.s, aq)
         /\ ChildrenAt(r.s, aq) = ChildrenAt(Cur, aq)

-----------------------------------------------------------------------------
\* create_dir_all.

\* C9: after create_dir_all(p) returns Ok, is_dir is true and is_file is
\* false for p and for every proper prefix of p; and when p was already a
\* Directory the call returns Ok and leaves the tree unchanged.
C9_CreateDirAllMakesDirs ==
  \A p \in InputPaths \ {<<>>} :
    LET r == base_fs_create_dir_all(Cur, p) IN
    /\ r.err = "Ok" =>
         \A k \in 1..Len(p) :
           /\ fs_is_dir(r.s, SubSeq(p, 1, k)) = [err |-> "Ok", value |-> TRUE]
           /\ fs_is_file(r.s, SubSeq(p, 1, k)) = [err |-> "Ok", value |-> FALSE]
    /\ fs_is_dir(Cur, p) = [err |-> "Ok", value |-> TRUE] =>
         r.err = "Ok" /\ r.s.root = system_root

\* The walk of the absolute path P, through Directories only, reaches a
\* File: as the last component, or before it.
ReachesFile(s, P) ==
  LET nf == lookup_entry_detail_no_follow(s.root, P) IN
  \/ nf.tag = "Err" /\ nf.err = "LeadsIntoFile"
  \/ nf.tag = "Found" /\ nf.entry.kind = "File"

\* The walk of P reaches a Symlink, as the last component or before it.
ReachesLink(s, P) == lookup_entry_detail_no_follow(s.root, P).tag = "Symlink"

-----------------------------------------------------------------------------
\* Writing through a handle.

Zeros(n) == [i \in 1..n |-> 0]

\* The content of the file the handle h is on.
HandleData(fls, h) == fls[h.inner].data

\* C11: a write through a handle whose cursor c is beyond the content
\* length stores the content, then zero bytes up to c, then the written
\* bytes; a write at a cursor within the content stores the written bytes
\* from c; and every write returns and advances the cursor by the number of
\* bytes written.
C11_SparseWrite ==
  \A i \in 1..Len(handles), buf \in Bufs :
    LET h == handles[i]
        c == h.pos
        D == HandleData(files, h)
        w == file_write(files, h, buf)
        E == HandleData(w.files, h)
    IN /\ w.err = "Ok"
       /\ c > Len(D) => E = D \o Zeros(c - Len(D)) \o buf
       /\ c <= Len(D) => SubSeq(E, 1, c + Len(buf)) = SubSeq(D, 1, c) \o buf
       /\ w.n = Len(buf)
       /\ w.handle.pos = c + Len(buf)

-----------------------------------------------------------------------------
\* Opening: truncate, the failures, append.

\* What a handle sees from the start of its file: seek Start(0), then read
\* to the end.
SeenThrough(fls, h) == read_to_end(fls, file_seek_start(fls, h, 0).handle, MaxLen)

\* C12: opening an existing non-empty File with truncate set (and without
\* create_new) succeeds and clears the content at open time: right after
\* open returns the content has length zero, and every handle that was
\* already open on that File sees the empty content.
C12_TruncateAtOpen ==
  \A p \in FilePaths, o \in OptionSet :
    LET abs == to_absolute_path(cwd, p)
        r == base_fs_open(Cur, p, o)
    IN (o.truncate /\ ~o.create_new /\ IsFileAt(Cur, abs) /\ ContentAt(Cur, abs) # <<>>) =>
         /\ r.err = "Ok"
         /\ Len(HandleData(r.s.files, r.handle)) = 0
         /\ ContentAt(r.s, abs) = <<>>
         /\ \A i \in 1..Len(handles) :
              handles[i].inner = r.handle.inner =>
                /\ HandleData(r.s.files, handles[i]) = <<>>
                /\ SeenThrough(r.s.files, handles[i]) = <<>>

\* A non-empty File with a handle open on it that sees its content, opened
\* again with truncate.
C12_Witness ==
  \E p \in FilePaths, i \in 1..Len(handles) :
    LET abs == to_absolute_path(cwd, p)
        r == base_fs_open(Cur, p, Options(FALSE, TRUE, FALSE, FALSE))
    IN /\ IsFileAt(Cur, abs)
       /\ Len(ContentAt(Cur, abs)) = MaxData
       /\ SeenThrough(files, handles[i]) = ContentAt(Cur, abs)
       /\ r.err = "Ok"
       /\ handles[i].inner = r.handle.inner
       /\ SeenThrough(r.s.files, handles[i]) = <<>>

\* The parent of the absolute path P resolves to a Directory, or to nothing.
ParentIsDir(s, P) ==
  HasParent(P) /\ fs_is_dir(s, Parent(P)) = [err |-> "Ok", value |-> TRUE]

ParentMissing(s, P) ==
  HasParent(P) /\ Kind(base_fs_metadata(s, Parent(P)).err) = "NotFound"

\* The call failed and left the tree, the contents and the cwd as they were.
FailsUnchanged(r, s) == r.err # "Ok" /\ r.s = s

\* C13: for a path p with a parent (p is not the root), open(p, options)
\* fails and leaves the tree and all contents unchanged when p names a File
\* and create_new is set (AlreadyExists), when p names a Directory or a
\* Symlink, when p is absent and create is not set (NotFound), and when the
\* parent directory of p does not exist; when p is absent, its parent is a
\* Directory and create is set, the call succeeds and p is a new empty File.
C13_OpenFailures ==
  \A p \in InputPaths :
    LET abs == to_absolute_path(cwd, p)
        nf == lookup_entry_detail_no_follow(system_root, abs)
        isFile == nf.tag = "Found" /\ nf.entry.kind = "File"
        isDir == nf.tag = "Found" /\ nf.entry.kind = "Directory"
        isLink == nf.tag = "Symlink" /\ nf.path = abs
        absent == nf.tag = "NotFound"
        missing == ParentMissing(Cur, abs)
        fresh == absent /\ HasFileName(abs) /\ ParentIsDir(Cur, abs)
    IN HasParent(abs) =>
       \A o \in OptionSet :
         LET r == base_fs_open(Cur, p, o) IN
         /\ (isFile /\ o.create_new) =>
              FailsUnchanged(r, Cur) /\ Kind(r.err) = "AlreadyExists"
         /\ (isDir \/ isLink) => FailsUnchanged(r, Cur)
         /\ (absent /\ ~o.create) =>
              FailsUnchanged(r, Cur) /\ Kind(r.err) = "NotFound"
         /\ missing => FailsUnchanged(r, Cur)
         /\ (fresh /\ o.create) =>
              /\ r.err = "Ok"
              /\ IsFileAt(r.s, abs)
              /\ ContentAt(r.s, abs) = <<>>
              /\ r.s.files = Alloc(files, <<>>)

\* A tree with a non-empty File, a Directory below the root and a Symlink,
\* where open has failed on each, has failed on an absent name and below a
\* missing parent, and has created a File.
C13_Witness ==
  LET Opened(p, o) == base_fs_open(Cur, p, o)
      Plain == Options(FALSE, FALSE, FALSE, FALSE)
      Create == Options(TRUE, FALSE, FALSE, FALSE)
  IN /\ \E p \in AbsPaths :
          /\ IsFileAt(Cur, p) /\ ContentAt(Cur, p) # <<>>
          /\ Opened(p, Options(TRUE, TRUE, FALSE, TRUE)).err = "FileExists"
     /\ \E p \in AbsPaths : HasParent(p) /\ IsDirAt(Cur, p) /\ Opened(p, Create).err = "NotAFile"
     /\ \E p \in AbsPaths : NamesLink(Cur, p) /\ Opened(p, Create).err = "NotAFile"
     /\ \E p \in AbsPaths :
          /\ AbsentAt(Cur, p) /\ ParentIsDir(Cur, p)
          /\ Opened(p, Plain).err = "FileNotFound"
          /\ Opened(p, Create).err = "Ok"
     /\ \E p \in AbsPaths : ParentMissing(Cur, p) /\ Opened(p, Create).err = "PathNotFound"

\* Open p with append, then write b1 and b2 through the handle.
AppendTwice(s, p, o, b1, b2) ==
  LET r == base_fs_open(s, p, o)
      w1 == file_write(r.s.files, r.handle, b1)
      w2 == file_write(w1.files, w1.handle, b2)
  IN [err |-> IF r.err # "Ok" THEN r.err ELSE IF w1.err # "Ok" THEN w1.err ELSE w2.err,
      start |-> r.handle.pos,
      data |-> HandleData(w2.files, r.handle),
      pos |-> w2.handle.pos]

\* C14: a handle opened with append on an existing File (without create_new)
\* starts with its cursor at the content length the open leaves, one opened
\* without append starts at 0, and two consecutive writes through the
\* appending handle leave the content that was there followed by the bytes
\* of both writes.
C14_AppendExtends ==
  \A p \in FilePaths :
    LET abs == to_absolute_path(cwd, p) IN
    IsFileAt(Cur, abs) =>
      \A o \in {x \in OptionSet : ~x.create_new} :
        LET D == IF o.truncate THEN <<>> ELSE ContentAt(Cur, abs)
            r == base_fs_open(Cur, p, o)
        IN /\ r.err = "Ok"
           /\ r.handle.pos = IF o.append THEN Len(D) ELSE 0
           /\ o.append =>
                \A b1 \in Bufs, b2 \in Bufs :
                  AppendTwice(Cur, p, o, b1, b2) =
                    [err |-> "Ok", start |-> Len(D), data |-> D \o b1 \o b2,
                     pos |-> Len(D) + Len(b1) + Len(b2)]

\* A File with content is opened with append and written to twice; it is
\* also opened without append.
C14_Witness ==
  \E p \in FilePaths, b \in Bufs :
    LET abs == to_absolute_path(cwd, p)
        a == AppendTwice(Cur, p, Options(FALSE, FALSE, TRUE, FALSE), b, b)
    IN /\ IsFileAt(Cur, abs)
       /\ Len(ContentAt(Cur, abs)) = MaxData
       /\ Len(b) = MaxLen
       /\ a.err = "Ok"
       /\ a.start = MaxData
       /\ a.data = ContentAt(Cur, abs) \o b \o b
       /\ base_fs_open(Cur, p, Options(FALSE, FALSE, FALSE, FALSE)).handle.pos = 0

-----------------------------------------------------------------------------
\* Seeking.

\* C15: seek(End(d)) on a handle whose file has length L fails with
\* InvalidInput and leaves the cursor unchanged whenever L + d < 0, and
\* succeeds for every d with L + d >= 0.
C15_SeekEndBeforeStart ==
  \A i \in 1..Len(handles), d \in IMin..IMax :
    LET h == handles[i]
        L == Len(HandleData(files, h))
        k == file_seek(files, h, [from |-> "End", n |-> d])
    IN /\ L + d < 0 => Kind(k.err) = "InvalidInput" /\ k.handle = h
       /\ L + d >= 0 => k.err = "Ok"

\* C16: seek(Start(n)) sets the cursor to n; seek(End(d)) with
\* length + d >= 0 sets it to length + d; seek(Current(d)) never fails and
\* sets it to cursor + d modulo the word size; each successful seek returns
\* the new cursor and changes no file content.
C16_SeekSetsCursor ==
  \A i \in 1..Len(handles) :
    LET h == handles[i]
        L == Len(HandleData(files, h))
        Sought(from, n) == file_seek(files, h, [from |-> from, n |-> n])
    IN /\ \A n \in 0..UMax : Sought("Start", n) = SeekOk(h, n)
       /\ \A d \in IMin..IMax :
            /\ L + d >= 0 => Sought("End", d) = SeekOk(h, L + d)
            /\ Sought("Current", d) = SeekOk(h, (h.pos + d) % 2^WordBits)
       /\ \A pos \in SeekFroms :
            LET k == file_seek(files, h, pos) IN
            k.err = "Ok" => k.ret = k.handle.pos /\ k.handle.inner = h.inner

-----------------------------------------------------------------------------
\* remove_file.

\* P is a proper prefix of Q, or Q itself.
IsPrefix(P, Q) == Len(P) <= Len(Q) /\ SubSeq(Q, 1, Len(P)) = P

\* What is found at the absolute path Q: the kind of entry, the target if
\* it is a Symlink and the content if it is a File.
EntryAt(s, Q) ==
  LET nf == lookup_entry_detail_no_follow(s.root, Q) IN
  [tag |-> nf.tag, kind |-> nf.entry.kind, target |-> nf.entry.target, err |-> nf.err,
   data |-> IF nf.tag = "Found" /\ nf.entry.kind = "File"
            THEN s.files[nf.entry.inner].data ELSE <<>>]

\* C17: remove_file(p) on a File returns Ok and removes exactly that entry:
\* exists(p) is false afterwards, the tree has one entry less and every
\* other path finds what it found before; on a Directory, even an empty
\* one, it returns an error and leaves the tree unchanged.
C17_RemoveFile ==
  \A p \in InputPaths :
    LET abs == to_absolute_path(cwd, p)
        r == base_fs_remove_file(Cur, p)
    IN /\ IsFileAt(Cur, abs) =>
            /\ r.err = "Ok"
            /\ base_fs_exists(r.s, p) = [err |-> "Ok", value |-> FALSE]
            /\ base_fs_exists(r.s, abs) = [err |-> "Ok", value |-> FALSE]
            /\ TreeSize(r.s.root) = TreeSize(system_root) - 1
            /\ \A q \in AbsPaths : ~IsPrefix(abs, q) => EntryAt(r.s, q) = EntryAt(Cur, q)
       /\ IsDirAt(Cur, abs) => FailsUnchanged(r, Cur)

-----------------------------------------------------------------------------
\* Creating symlinks and hard links.

\* C18: a symlink stores the target given at creation verbatim, and at
\* lookup a relative target is resolved relative to the directory that
\* contains the link: resolving the link gives what resolving the target
\* joined to the link's parent directory gives.
C18_TargetRelativeToParent ==
  \A p \in InputPaths, tgt \in Targets :
    LET link == to_absolute_path(cwd, p)
        r == base_fs_symlink_file(Cur, tgt, p)
    IN r.err = "Ok" =>
         /\ NamesLink(r.s, link)
         /\ lookup_entry_detail_no_follow(r.s.root, link).entry.target = tgt
         /\ ~is_absolute(tgt) =>
              base_fs_canonicalize(r.s, link) =
                base_fs_canonicalize(r.s, normalize_path(join(Parent(link), tgt)))

\* The link at the absolute path P, created with the target tgt.
IsLinkTo(s, P, tgt) ==
  NamesLink(s, P) /\ lookup_entry_detail_no_follow(s.root, P).entry.target = tgt

\* C19: symlink(original, link) returns an error and leaves the tree
\* unchanged when link names an existing Directory; when link names an
\* existing File or Symlink it returns Ok and that entry is replaced by the
\* new Symlink; when link is absent (and its parent is a Directory) it
\* returns Ok and the Symlink is inserted.
C19_SymlinkOverExisting ==
  \A p \in InputPaths, tgt \in Targets :
    LET link == to_absolute_path(cwd, p)
        r == base_fs_symlink_file(Cur, tgt, p)
    IN /\ IsDirAt(Cur, link) => r.err \notin {"Ok", "Panic"} /\ r.s = Cur
       /\ (IsFileAt(Cur, link) \/ NamesLink(Cur, link)) =>
            /\ r.err = "Ok"
            /\ IsLinkTo(r.s, link, tgt)
            /\ TreeSize(r.s.root) = TreeSize(system_root)
       /\ (AbsentAt(Cur, link) /\ HasFileName(link) /\ ParentIsDir(Cur, link)) =>
            /\ r.err = "Ok"
            /\ IsLinkTo(r.s, link, tgt)
            /\ TreeSize(r.s.root) = TreeSize(system_root) + 1

\* The absolute path P resolves, links followed, to a File.
ResolvesToFile(s, P) ==
  LET e == lookup_entry(s.root, P) IN e.tag = "Found" /\ e.entry.kind = "File"

\* The content of the File the absolute path P resolves to, links followed.
ResolvedContent(s, P) == s.files[lookup_entry(s.root, P).entry.inner].data

\* Writing b to the path w, or truncating it by an open, leaves the content
\* the absolute path P resolves to as it is.
LeavesContent(s, w, b, P) ==
  LET wr == base_fs_write(s, w, b)
      tr == base_fs_open(s, w, Options(FALSE, TRUE, FALSE, FALSE))
  IN /\ wr.err = "Ok" => ResolvedContent(wr.s, P) = ResolvedContent(s, P)
     /\ tr.err = "Ok" => ResolvedContent(tr.s, P) = ResolvedContent(s, P)

\* C20: after hard_link(src, dst) succeeds, dst is a File whose content is
\* the content src had at link time, and a later write or truncate through
\* either path leaves the content of the other path unchanged.
C20_HardLinkCopies ==
  \A p \in InputPaths, q \in InputPaths :
    LET src == to_absolute_path(cwd, p)
        dst == to_absolute_path(cwd, q)
        r == base_fs_hard_link(Cur, p, q)
    IN r.err = "Ok" =>
         /\ ResolvesToFile(r.s, dst)
         /\ ResolvedContent(r.s, dst) = ResolvedContent(Cur, src)
         /\ ResolvedContent(r.s, src) = ResolvedContent(Cur, src)
         /\ \A b \in Data :
              b # ResolvedContent(Cur, src) =>
                LeavesContent(r.s, q, b, src) /\ LeavesContent(r.s, p, b, dst)

-----------------------------------------------------------------------------
\* Paths that lead into a File.

\* Some component of the absolute path P before the last one names a File.
FileInTheMiddle(s, P) == \E k \in 2..(Len(P) - 1) : IsFileAt(s, SubSeq(P, 1, k))

\* C21: resolving a path one of whose non-final components names a File
\* returns an error, with and without following links: the path is never
\* reported Found or NotFound, and the walk that creates directories fails
\* on it too and leaves the tree as it is.
C21_FileIsNoDirectory ==
  \A p \in InputPaths :
    LET abs == to_absolute_path(cwd, p) IN
    FileInTheMiddle(Cur, abs) =>
      /\ lookup_entry_detail_no_follow(system_root, abs).tag = "Err"
      /\ lookup_entry_detail(system_root, abs).tag = "Err"
      /\ base_fs_metadata(Cur, abs).err = "LeadsIntoFile"
      /\ Kind(base_fs_canonicalize(Cur, p).err) = "Other"
      /\ base_fs_read_dir(Cur, p).err # "Ok"
      /\ \A create_dirs \in BOOLEAN :
           LET d == find_directory_mut(system_root, abs, create_dirs) IN
           d.err = "LeadsIntoFile" /\ d.root = system_root

\* A File with a path that continues below it, which every lookup refuses.
C21_Witness ==
  \E p \in AbsPaths :
    /\ FileInTheMiddle(Cur, p)
    /\ lookup_entry_detail_no_follow(system_root, p).err = "LeadsIntoFile"
    /\ lookup_entry(system_root, p).err = "LeadsIntoFile"
    /\ base_fs_create_dir_all(Cur, p).err = "LeadsIntoFile"

-----------------------------------------------------------------------------
\* Handles on the same File.

\* Bytes written through one handle are read through every other handle on
\* the same File.
SharedContent ==
  \A i \in 1..Len(handles), j \in 1..Len(handles), buf \in Bufs :
    LET w == file_write(files, handles[i], buf) IN
    (i # j /\ handles[i].inner = handles[j].inner /\ w.err = "Ok") =>
      /\ SeenThrough(w.files, handles[j]) = HandleData(w.files, handles[i])
      /\ SubSeq(SeenThrough(w.files, handles[j]),
                handles[i].pos + 1, handles[i].pos + Len(buf)) = buf

\* A step changes the cursor of at most one handle: a read, write or seek
\* that of the handle it is made on, an open none of those already open, a
\* drop none of those that stay.
PrivateCursor ==
  /\ Len(handles') = Len(handles) =>
       Cardinality({j \in 1..Len(handles) : handles'[j] # handles[j]}) <= 1
  /\ Len(handles') > Len(handles) => SubSeq(handles', 1, Len(handles)) = handles
  /\ Len(handles') < Len(handles) =>
       \E i \in 1..Len(handles) : handles' = RemoveAt(handles, i)

\* C22: two handles opened independently on the same File share its
\* content, and each has its own cursor: no read, write or seek on one
\* handle changes the cursor of another.
C22_SharedContentPrivateCursor == []SharedContent /\ [][PrivateCursor]_vars

\* Two handles on the same non-empty File, at different cursors, each seeing
\* the whole content.
C22_Witness ==
  \E i \in 1..Len(handles), j \in 1..Len(handles) :
    /\ i # j
    /\ handles[i].inner = handles[j].inner
    /\ handles[i].pos = 0
    /\ handles[j].pos = MaxData
    /\ Len(HandleData(files, handles[i])) = MaxData
    /\ SeenThrough(files, handles[j]) = HandleData(files, handles[i])

-----------------------------------------------------------------------------
\* Handles and the entries of the tree.

\* The handle h, alone, after the tree became root: it still reaches its
\* FileInner, reads the content D from the start and writes b over it.
HandleOutlives(root, fls, h, D, b) ==
  LET left == Collect(root, <<h>>, fls)
      w == file_write(left, h, b)
  IN /\ h.inner \in 1..Len(left)
     /\ left[h.inner].live
     /\ SeenThrough(left, h) = D
     /\ w.err = "Ok"
     /\ SeenThrough(w.files, h) = b

\* C23: the lifetimes of handles and of tree entries are independent: after
\* every handle of a File is dropped the File is in the tree with its
\* content, and a handle opened before its File is removed by remove_file
\* or replaced by a rename onto it still reads and writes the content the
\* File had.
C23_HandleOutlivesEntry ==
  \A p \in InputPaths :
    LET abs == to_absolute_path(cwd, p)
        o == base_fs_open(Cur, p, Options(FALSE, FALSE, FALSE, FALSE))
        D == ContentAt(Cur, abs)
        rm == base_fs_remove_file(o.s, p)
    IN IsFileAt(Cur, abs) =>
         /\ o.err = "Ok"
         /\ LET dropped == [o.s EXCEPT !.files = Collect(o.s.root, <<>>, o.s.files)]
            IN IsFileAt(dropped, abs) /\ ContentAt(dropped, abs) = D
         /\ rm.err = "Ok" =>
              \A b \in Data : HandleOutlives(rm.s.root, rm.s.files, o.handle, D, b)
         /\ \A q \in InputPaths :
              LET rn == base_fs_rename(o.s, q, p) IN
              (IsFileAt(Cur, to_absolute_path(cwd, q)) /\ to_absolute_path(cwd, q) # abs
                 /\ rn.err = "Ok") =>
                \A b \in Data : HandleOutlives(rn.s.root, rn.s.files, o.handle, D, b)

\* A File with content whose handle outlives its removal, and one whose
\* handle outlives a rename of another File onto it.
C23_Witness ==
  \E p \in AbsPaths, q \in AbsPaths :
    LET o == base_fs_open(Cur, p, Options(FALSE, FALSE, FALSE, FALSE))
        rm == base_fs_remove_file(o.s, p)
        rn == base_fs_rename(o.s, q, p)
    IN /\ IsFileAt(Cur, p) /\ IsFileAt(Cur, q) /\ p # q
       /\ ContentAt(Cur, p) # <<>>
       /\ ContentAt(Cur, q) # ContentAt(Cur, p)
       /\ rm.err = "Ok" /\ AbsentAt(rm.s, p)
       /\ rn.err = "Ok" /\ ContentAt(rn.s, p) = ContentAt(Cur, q)
       /\ HandleOutlives(rm.s.root, rm.s.files, o.handle, ContentAt(Cur, p), <<>>)
       /\ HandleOutlives(rn.s.root, rn.s.files, o.handle, ContentAt(Cur, p), <<>>)

-----------------------------------------------------------------------------
\* The boolean queries.

OkFalse == [err |-> "Ok", value |-> FALSE]

OkTrue == [err |-> "Ok", value |-> TRUE]

\* The no-err forms are false on every error and true exactly when the
\* error-returning form is Ok(true).
NoErrForms(s, p) ==
  /\ base_fs_exists_no_err(s, p) = (base_fs_exists(s, p) = OkTrue)
  /\ fs_is_file_no_err(s, p) = (fs_is_file(s, p) = OkTrue)
  /\ fs_is_dir_no_err(s, p) = (fs_is_dir(s, p) = OkTrue)
  /\ fs_is_symlink_no_err(s, p) = (fs_is_symlink(s, p) = OkTrue)

\* C27: exists, is_file, is_dir and is_symlink return Ok(false), not an
\* error, when the path is not found; the no-err forms return false on
\* every error and true exactly when the error-returning form returns
\* Ok(true).
C27_BooleanQueries ==
  \A p \in InputPaths :
    /\ Kind(base_fs_symlink_metadata(Cur, p).err) = "NotFound" =>
         /\ base_fs_exists(Cur, p) = OkFalse
         /\ fs_is_symlink(Cur, p) = OkFalse
    /\ Kind(base_fs_metadata(Cur, p).err) = "NotFound" =>
         /\ fs_is_file(Cur, p) = OkFalse
         /\ fs_is_dir(Cur, p) = OkFalse
    /\ NoErrForms(Cur, p)

-----------------------------------------------------------------------------
\* Reading through a handle.

Min(a, b) == IF a < b THEN a ELSE b

\* read(buf) with len(buf) = len through the handle h: the bytes copied and
\* the cursor afterwards, for the cursor c and the content length L.
ReadCopies(fls, h, len) ==
  LET data == fls[h.inner].data
      L == Len(data)
      c == h.pos
      r == file_read(fls, h, len)
  IN /\ r.handle.inner = h.inner
     /\ c >= L => (r.bytes = <<>> /\ r.handle.pos = c)
     /\ c < L =>
          /\ Len(r.bytes) = Min(L - c, len)
          /\ \A k \in 1..Len(r.bytes) : r.bytes[k] = data[c + k]
          /\ r.handle.pos = c + Min(L - c, len)

\* A step of read leaves every content, the tree and every other handle as
\* they were.
ReadKeepsContent ==
  \A i \in 1..Len(handles), len \in 1..MaxLen :
    HandleRead(i, len) =>
      /\ files' = files
      /\ system_root' = system_root
      /\ Len(handles') = Len(handles)
      /\ \A j \in 1..Len(handles) : j # i => handles'[j] = handles[j]
      /\ handles'[i] = file_read(files, handles[i], len).handle

\* C28: read(buf) on a handle with cursor c over content of length L copies
\* min(L - c, len(buf)) bytes starting at position c and advances the
\* cursor by that number; when c >= L it returns 0 bytes, never an error,
\* and leaves the cursor and the content unchanged.
C28_ReadCopies ==
  /\ [](\A i \in 1..Len(handles), len \in 0..MaxData : ReadCopies(files, handles[i], len))
  /\ [][ReadKeepsContent]_vars

\* One handle in the middle of its content, from where a read of two bytes
\* gets one or two, and one past the end of its content.
C28_Witness ==
  \E i \in 1..Len(handles), j \in 1..Len(handles) :
    /\ handles[i].pos > 0
    /\ handles[i].pos < Len(files[handles[i].inner].data)
    /\ file_read(files, handles[i], 2).handle.pos > handles[i].pos
    /\ handles[j].pos > Len(files[handles[j].inner].data)
    /\ file_read(files, handles[j], 2) = [handle |-> handles[j], bytes |-> <<>>]

-----------------------------------------------------------------------------
\* The empty path.

\* C29: resolving an empty path always fails, and the error kind is
\* InvalidInput.
C29_EmptyPathInvalidInput ==
  /\ lookup_entry_detail_no_follow(system_root, <<>>).tag = "Err"
  /\ Kind(lookup_entry_detail_no_follow(system_root, <<>>).err) = "InvalidInput"
  /\ lookup_entry_detail(system_root, <<>>).tag = "Err"
  /\ Kind(lookup_entry_detail(system_root, <<>>).err) = "InvalidInput"
  /\ \A create_dirs \in BOOLEAN :
       Kind(find_directory_mut(system_root, <<>>, create_dirs).err) = "InvalidInput"
  /\ Kind(base_fs_metadata(Cur, <<>>).err) = "InvalidInput"
  /\ Kind(base_fs_symlink_metadata(Cur, <<>>).err) = "InvalidInput"

-----------------------------------------------------------------------------
\* normalize_path.

\* No "." is left, and no ".." either: one after a name is folded with it,
\* one at the root or at the start of a relative path is dropped.
Folded(p) == \A k \in 1..Len(p) : p[k] \notin {".", ".."}

\* What the loop of normalize_path returns for norm_path.
NormalizeReturns ==
  norm_components = <<>> =>
    /\ norm_ret = normalize_path(norm_path)
    /\ normalize_path(norm_ret) = norm_ret
    /\ Folded(norm_ret)

\* A ".." met with ret at the root, or with nothing in ret, leaves ret.
ParentDirAtRoot ==
  (NormalizeParentDir /\ norm_ret \in {<<>>, <<"/">>}) => norm_ret' = norm_ret

\* C30: normalize is idempotent, normalize(normalize(p)) = normalize(p)
\* for every path p; its output contains no "." component and no ".."
\* component that could have been folded; and ".." at the root is a no-op,
\* not an error.
C30_NormalizeIdempotent ==
  /\ [](NormalizeReturns /\ Folded(norm_ret))
  /\ [](\A p \in NormPaths :
         /\ normalize_path(normalize_path(p)) = normalize_path(p)
         /\ Folded(normalize_path(p)))
  /\ [][ParentDirAtRoot]_vars

\* normalize_path has returned / for a path that climbs over the root, and
\* the second call on what it returned has ended too.
C30_Witness ==
  /\ norm_components = <<>>
  /\ norm_ret = <<"/", "a">>
  /\ norm_path = norm_ret
  /\ normalize_path(<<"/", "..", "a", ".">>) = norm_ret

-----------------------------------------------------------------------------
\* The lock of the tree.

\* A thread inside create_dir_all, open, remove_file, rename or
\* symlink_file is the writer of the lock, and the lock has no reader.
StructuralHoldsLock ==
  \A t \in Threads :
    threads[t].pc \in StructuralPcs => (lock.writer = t /\ lock.readers = {})

\* No two threads are inside such calls at once.
NoOverlap ==
  \A t \in Threads, u \in Threads :
    (t # u /\ threads[t].pc \in StructuralPcs) => threads[u].pc \notin StructuralPcs

\* While symlink_metadata looks at the tree no such call is under way, and
\* no entry is out of the tree in the hands of a rename.
NoIntermediateSeen ==
  \A t \in Threads :
    threads[t].pc = "symlink_metadata" =>
      /\ t \in lock.readers
      /\ \A u \in Threads :
           threads[u].pc \notin StructuralPcs /\ threads[u].file_entry.kind = "None"

\* C24: every structural operation (create_dir_all, remove_file, rename,
\* symlink, open) holds the tree-wide writer lock from its first access to
\* the tree until it returns: no two of them overlap, and no concurrent
\* lookup or metadata call observes an intermediate state.
C24_StructuralOpsExclusive ==
  StructuralHoldsLock /\ NoOverlap /\ NoIntermediateSeen

\* A rename has taken /a out of the tree and not yet put it at /b, while
\* the other thread stands outside every call.
C24_Witness ==
  \E t \in Threads, u \in Threads :
    /\ t # u
    /\ threads[t].pc = "rename_detached"
    /\ threads[t].file_entry.kind = "File"
    /\ lock.writer = t
    /\ AbsentAt(Cur, <<"/", "a">>)
    /\ AbsentAt(Cur, <<"/", "b">>)
    /\ threads[u].pc = "idle"

\* Where a thread stands inside InMemoryFile::write.
HandlePcs == {"write_time", "write_store"}

\* C25: read, write and seek on an opened handle never acquire the
\* tree-wide lock, which only open needs: a thread inside one of them holds
\* the lock of the tree neither as a reader nor as the writer.
C25_HandleOpsLockFree ==
  \A t \in Threads :
    threads[t].pc \in HandlePcs => (t \notin lock.readers /\ lock.writer # t)

\* C26: the modified timestamp of a node never decreases, over any
\* interleaving of the calls, as long as the readings of the clock never
\* decrease.
C26_ModifiedTimeMonotone ==
  [][\A i \in 1..MaxFiles :
       (WasLive(files, i) /\ WasLive(files', i)) =>
         modified_time'[i] >= modified_time[i]]_vars

-----------------------------------------------------------------------------
\* canonicalize.

\* The path a symlink met at the prefix nf.path of abs stands for: its
\* target, and the components of abs after the symlink.
ThroughLink(abs, nf) ==
  normalize_path(nf.entry.target) \o SubSeq(abs, Len(nf.path) + 1, Len(abs))

\* C31: canonicalize(p) resolves a relative p against the current working
\* directory and returns the normalized absolute path with every symlink
\* resolved: for an existing path without symlinks cwd joined with p,
\* normalized, and for a path through a symlink with an absolute target
\* the path below the target; it fails with NotFound when p does not exist.
C31_Canonicalize ==
  \A p \in InputPaths :
    LET abs == to_absolute_path(cwd, p)
        nf == lookup_entry_detail_no_follow(system_root, abs)
        c == base_fs_canonicalize(Cur, p)
    IN /\ nf.tag = "Found" => c = [err |-> "Ok", path |-> abs]
       /\ nf.tag = "NotFound" => Kind(c.err) = "NotFound"
       /\ (nf.tag = "Symlink" /\ is_absolute(nf.entry.target)
             /\ lookup_entry_detail_no_follow(system_root, ThroughLink(abs, nf)).tag = "Found") =>
            c = [err |-> "Ok", path |-> ThroughLink(abs, nf)]

-----------------------------------------------------------------------------
\* read_dir.

\* What read_dir(p) returns for the Directory at abs: one entry per child,
\* in the order of the children, with the name and the type of the child
\* and the path p joined with the name.
OnePerChild(s, p, abs) ==
  LET children == lookup_entry_detail_no_follow(s.root, abs).entry.entries
      r == base_fs_read_dir(s, p)
  IN /\ r.err = "Ok"
     /\ Len(r.entries) = Len(children)
     /\ \A i \in 1..Len(children) :
          r.entries[i] = [name |-> children[i].name,
                          path |-> join(p, <<children[i].name>>),
                          file_type |-> children[i].kind]

\* The entries an iterator yields are those of the call: a step that is not
\* the call and not the drop leaves them, and next only moves forward.
IterFixed ==
  (read_dir_iter.open /\ read_dir_iter'.open) =>
    /\ read_dir_iter'.entries = read_dir_iter.entries
    /\ read_dir_iter'.path = read_dir_iter.path
    /\ read_dir_iter'.next >= read_dir_iter.next
    /\ read_dir_iter'.next <= Len(read_dir_iter.entries) + 1

\* C32: read_dir(p) on a Directory yields exactly one entry per child of
\* that directory, none for an empty one, each with the child's name and
\* type and with the path p joined with the name, as a finite sequence
\* fixed at the time of the call that later changes of the tree do not
\* alter; read_dir on a File fails with the error kind Other.
C32_ReadDirSnapshot ==
  /\ [](\A p \in InputPaths :
         LET abs == to_absolute_path(cwd, p) IN
         /\ IsDirAt(Cur, abs) => OnePerChild(Cur, p, abs)
         /\ IsFileAt(Cur, abs) => Kind(base_fs_read_dir(Cur, p).err) = "Other")
  /\ [][IterFixed]_vars

\* An iterator over the two children of /a, one of them taken, after one
\* of the two was removed from the directory; and a File to call read_dir
\* on.
C32_Witness ==
  /\ read_dir_iter.open
  /\ Len(read_dir_iter.entries) = 2
  /\ read_dir_iter.next = 2
  /\ read_dir_iter.path = <<"a">>
  /\ base_fs_read_dir(Cur, read_dir_iter.path).err = "Ok"
  /\ Len(base_fs_read_dir(Cur, read_dir_iter.path).entries) = 1
  /\ \E q \in AbsPaths : IsFileAt(Cur, q)

-----------------------------------------------------------------------------
\* sys_random.

\* One of two byte strings starts the other.
OneStartsOther(a, b) ==
  \A k \in 1..Min(Len(a), Len(b)) : a[k] = b[k]

\* C33: with a seed set, random(buf) is deterministic: the bytes written
\* depend only on the seed and on the length of the buffer, the sequence of
\* the generator being restarted from the seed on every call, so that two
\* calls with the same seed return the same bytes and the output for a
\* shorter buffer is a prefix of the output for a longer one.
C33_SeededRandom ==
  (random_seed.some /\ RandomReturned) =>
    /\ rand_buf = random_with_seed(random_seed.seed, rand_len)
    /\ rand_prev.some =>
         /\ OneStartsOther(rand_prev.bytes, rand_buf)
         /\ Len(rand_prev.bytes) = rand_len => rand_prev.bytes = rand_buf

\* With the seed 42, a call for two bytes and then a call for three have
\* returned, and the bytes are not all the same.
C33_Witness ==
  /\ random_seed = [some |-> TRUE, seed |-> U64(42)]
  /\ RandomReturned
  /\ rand_prev.some
  /\ Len(rand_prev.bytes) = 2
  /\ rand_len = MaxBuf
  /\ rand_buf[1] # rand_buf[2]

-----------------------------------------------------------------------------
\* A write inside the content.

\* C34: a write of k bytes through a handle with the cursor c, where c + k
\* is less than the length L of the content, overwrites the positions
\* c .. c + k - 1 alone: the bytes from c + k on and the length L are
\* unchanged.
C34_WriteInside ==
  \A i \in 1..Len(handles), buf \in Bufs :
    LET h == handles[i]
        data == files[h.inner].data
        w == file_write(files, h, buf)
        after == w.files[h.inner].data
    IN h.pos + Len(buf) < Len(data) =>
         /\ w.err = "Ok"
         /\ Len(after) = Len(data)
         /\ \A j \in 1..h.pos : after[j] = data[j]
         /\ \A j \in 1..Len(buf) : after[h.pos + j] = buf[j]
         /\ \A j \in (h.pos + Len(buf) + 1)..Len(data) : after[j] = data[j]

-----------------------------------------------------------------------------
\* A symlink before the last component.

\* C35: when a component of a path before the last is a symlink to a
\* directory D, the components after the symlink are resolved inside D:
\* for a link l with the target D, resolving l/x gives what resolving D/x
\* gives, NotFound when x is absent in D, and never D itself.
C35_ResolvesInsideTarget ==
  \A p \in InputPaths :
    LET abs == to_absolute_path(cwd, p)
        nf == lookup_entry_detail_no_follow(system_root, abs)
        D == normalize_path(nf.entry.target)
        r == lookup_entry_detail(system_root, abs)
    IN (nf.tag = "Symlink" /\ Len(nf.path) < Len(abs)
          /\ is_absolute(nf.entry.target) /\ IsDirAt(Cur, D)) =>
         /\ r = lookup_entry_detail(system_root, ThroughLink(abs, nf))
         /\ AbsentAt(Cur, ThroughLink(abs, nf)) => r.tag = "NotFound"
         /\ ~(r.tag = "Found" /\ r.path = D)

-----------------------------------------------------------------------------
\* Creating a file below a symlinked directory.

\* The names of the children of the Directory at P.
ChildNames(s, P) ==
  LET es == lookup_entry_detail_no_follow(s.root, P).entry.entries
  IN [i \in 1..Len(es) |-> es[i].name]

\* The path resolves, symlinks followed, to the File with the content id.
ResolvesToInner(s, P, id) ==
  LET r == lookup_entry_detail(s.root, P)
  IN r.tag = "Found" /\ r.entry.kind = "File" /\ r.entry.inner = id

\* C36: open with create on a path whose parent component is a symlink to
\* a directory D inserts the new File into D; the file is then reachable
\* both through the link path and through D, and the directory that
\* contains the link gets no new child.
C36_CreateBelowLink ==
  \A p \in InputPaths :
    LET abs == to_absolute_path(cwd, p)
        nf == lookup_entry_detail_no_follow(system_root, Parent(abs))
        D == normalize_path(nf.entry.target)
        real == Append(D, FileName(abs))
        r == base_fs_open(Cur, p, Options(TRUE, FALSE, FALSE, FALSE))
    IN (HasParent(abs) /\ HasParent(Parent(abs))
          /\ nf.tag = "Symlink" /\ nf.path = Parent(abs)
          /\ is_absolute(nf.entry.target) /\ IsDirAt(Cur, D)
          /\ AbsentAt(Cur, real)) =>
         /\ r.err = "Ok"
         /\ IsFileAt(r.s, real)
         /\ ResolvesToInner(r.s, real, r.handle.inner)
         /\ ResolvesToInner(r.s, abs, r.handle.inner)
         /\ ChildNames(r.s, Parent(Parent(abs))) = ChildNames(Cur, Parent(Parent(abs)))

-----------------------------------------------------------------------------
\* The metadata queries against canonicalize.

\* Some entry of the tree is a Symlink.
RECURSIVE HasSymlink(_)
HasSymlink(es) ==
  \E i \in 1..Len(es) :
    \/ es[i].kind = "Symlink"
    \/ es[i].kind = "Directory" /\ HasSymlink(es[i].entries)

\* The kind of the node that canonicalize(p) names.
CanonicalKind(s, p) ==
  lookup_entry_detail_no_follow(s.root, base_fs_canonicalize(s, p).path).entry.kind

\* C39: in a tree without symlinks, for every path p, absolute or relative
\* to the current working directory, with "." or ".." or without,
\* exists(p) is true exactly when canonicalize(p) succeeds, and is_dir and
\* is_file report the type of the node that canonicalize(p) names.
C39_MetadataAsCanonicalize ==
  ~HasSymlink(system_root) =>
    \A p \in InputPaths :
      LET c == base_fs_canonicalize(Cur, p)
      IN /\ (base_fs_exists(Cur, p) = OkTrue) <=> (c.err = "Ok")
         /\ c.err = "Ok" =>
              /\ fs_is_dir(Cur, p) =
                   [err |-> "Ok", value |-> CanonicalKind(Cur, p) = "Directory"]
              /\ fs_is_file(Cur, p) =
                   [err |-> "Ok", value |-> CanonicalKind(Cur, p) = "File"]

-----------------------------------------------------------------------------
\* Locks and progress.

\* A thread that is about to take the lock of the tree holds neither that
\* lock nor the lock of a file.
AsksWithNothingHeld ==
  \A t \in Threads :
    threads[t].pc \in TreeReadPcs \cup TreeWritePcs =>
      /\ lock.writer # t
      /\ t \notin lock.readers
      /\ threads[t].guard = NoGuard

\* C37: no set of concurrently running operations deadlocks: no thread asks
\* for the lock of the tree, to read or to write, while it holds that lock
\* or the lock of a file, so the lock of the tree is always taken before
\* the lock of a file; and under fair scheduling every call that has
\* started, hard_link, whole-file write, set-cwd and handle write among
\* them, returns.
C37_NoDeadlock ==
  /\ []AsksWithNothingHeld
  /\ \A t \in Threads : (threads[t].pc # "idle") ~> (threads[t].pc = "idle")

\* A base_fs_write holds the lock of the tree in open and waits to truncate
\* the file that another thread holds the lock of.
C37_Witness ==
  \E t \in Threads, u \in Threads :
    /\ threads[t].pc = "w_open"
    /\ lock.writer = t
    /\ threads[u].guard.mode # "none"
    /\ ResolvesToInner(Cur, threads[t].call.p, threads[u].guard.inner)

-----------------------------------------------------------------------------
\* A whole-file read beside a whole-file write.

\* C38: a whole-file read of p that runs concurrently with a whole-file
\* write(p, new) over the existing content old returns old or new, and no
\* other value such as the empty content.
C38_ReadOldOrNew ==
  [][\A r \in Threads, w \in Threads :
       (/\ threads[r].pc = "r_locked"
        /\ threads'[r].pc = "idle"
        /\ threads[w].pc \in {"w_store", "w_locked"}
        /\ threads[w].old.some
        /\ threads[w].file.inner = threads[r].file.inner) =>
         files[threads[r].file.inner].data \in {threads[w].old.data, threads[w].call.q}]_vars

====
